---- MODULE Spec2Model ----
(***************************************************************************)
(* Model of the validation orchestrator of the IPTV playlist manager       *)
(* (backend/services/validation.py) together with the administrative       *)
(* operations that write the same records (backend/api/routes/channels.py, *)
(* backend/api/routes/system.py).                                          *)
(*                                                                         *)
(* The database tables are the variables channels, playlists,              *)
(* validation_logs and validation_results: they hold COMMITTED rows only.  *)
(* What a run holds in its SQLAlchemy session (loaded attributes, pending  *)
(* changes) and in its local variables lives in run[r].                    *)
(*                                                                         *)
(* datetime.utcnow() inside a run is observed at the granularity of run    *)
(* starts: it is the id of the run's ValidationLog.                        *)
(*                                                                         *)
(* validate_all_playlists and generate_unified_playlist (same file), the   *)
(* file writer of backend/services/m3u_parser.py and the reader of         *)
(* backend/main.py are modelled by validate_all, generate, playlist_file   *)
(* and served; the pure functions of M3UParser (parsing, deduplication,    *)
(* generation) work on strings and are applied in codec.                   *)
(***************************************************************************)
EXTENDS Integers, Sequences, FiniteSets, TLC

VARIABLES channels, playlists, settings, validation_logs, validation_results, run,
          validate_all, generate, playlist_file, served, codec, probe, scheduler, deleted

\* what validate_all_playlists, generate_unified_playlist and the readers of
\* the unified playlist hold: the locals of the two calls, the file
\* static/playlist.m3u and the last response of GET /playlist.m3u; codec is
\* an M3UParser at work on a text or a list of records, probe one call of
\* validate_stream_url with its requests, scheduler a ValidationScheduler
\* with its threads and the jobs of the schedule module, deleted the ids of
\* the Channel rows that DELETE /channels/{id} removed
consolidation == <<validate_all, generate, playlist_file, served, codec, probe, scheduler, deleted>>

vars == <<channels, playlists, settings, validation_logs, validation_results, run,
          consolidation>>

(***************************************************************************)
(* Bounds of the model                                                     *)
(***************************************************************************)
\* number of Channel rows of the playlist
NumChannels == 3
\* number of ValidationLog rows that may be created (runs that reach 'running')
MaxLogs == 1
\* batch_size of validate_playlist is 50 (validation.py:189); it is scaled
\* down here so that a run over NumChannels channels spans several batches
batch_size == 2

Channels == 1..NumChannels
\* the playlist that owns the channels, and an id no playlist has
Playlists == {1}
MissingPlaylist == 0
PlaylistIds == Playlists \cup {MissingPlaylist}

\* the two places a run is started from: a BackgroundTasks task of the API
\* event loop, and the scheduler's thread with its own event loop
Procs == {"api", "scheduler"}

\* Optional values (Python None / a value)
None == <<>>
Some(v) == <<v>>

\* values of validation_retry_attempts and validation_concurrent_limit that
\* the environment or PUT /config supply
RetryValues == {1, 2}
LimitValues == {-1, 1, 2}

\* stream addresses
AdminUrl == "http://edited"
AltUrls == <<"http://alt1", "http://alt2">>

\* Channel.alternative_urls is a Text column: NULL, or text that json.loads
\* decodes to a list, or text it rejects
JsonArray(urls) == [kind |-> "array", urls |-> urls]
JsonInvalid == [kind |-> "invalid", urls |-> <<>>]

\* json.loads(text): [ok, value]
JsonLoads(text) ==
    IF text.kind = "array" THEN [ok |-> TRUE, value |-> text.urls]
    ELSE [ok |-> FALSE, value |-> <<>>]

\* The Channel rows the tables hold when the model starts.  A row as it is
\* inserted (column defaults of core/database.py: active, working, never
\* checked):
NewChannel(alternative_urls) ==
    [ playlist_id      |-> 1,
      stream_url       |-> "http://primary",
      alternative_urls |-> alternative_urls,
      is_active        |-> TRUE,
      is_working       |-> TRUE,
      last_checked     |-> None,
      check_count      |-> 0,
      failure_count    |-> 0,
      response_time    |-> None ]

\* the same row after one earlier run (at time 0) in which its probe timed
\* out, under a threshold of retry_attempts: it was retired by that run when
\* one failure reached the threshold
FailedOnce(row, retry_attempts) ==
    [row EXCEPT !.is_working = FALSE, !.last_checked = Some(0), !.check_count = 1,
                !.failure_count = 1, !.response_time = Some(3),
                !.is_active = (1 < retry_attempts)]

\* channel c: with two alternatives and never checked, or without
\* alternatives and failed once, or with undecodable alternatives and never
\* checked
InitialChannel(c, retry_attempts) ==
    CASE c % 3 = 1 -> NewChannel(Some(JsonArray(AltUrls)))
      [] c % 3 = 2 -> FailedOnce(NewChannel(None), retry_attempts)
      [] OTHER     -> NewChannel(Some(JsonInvalid))

(***************************************************************************)
(* validate_stream_url: the outcomes (is_working, response_time,           *)
(* error_message, status_code) a probe of url can return.  The network     *)
(* decides which; response times are abstract durations.                   *)
(***************************************************************************)
Outcome(w, rt, err, st) ==
    [is_working |-> w, response_time |-> rt, error_message |-> err, status_code |-> st]

EmptyUrlOutcome == Outcome(FALSE, 0, Some("Empty URL"), None)

NetworkOutcomes ==
    { Outcome(TRUE, 1, None, Some(200)),
      Outcome(FALSE, 2, Some("HTTP 404"), Some(404)),
      Outcome(FALSE, 3, Some("Request timeout"), None) }

validate_stream_url(url) ==
    IF url = "" THEN {EmptyUrlOutcome} ELSE NetworkOutcomes

(***************************************************************************)
(* Local state of a run                                                    *)
(***************************************************************************)
NoResult ==
    [ channel_id |-> 0, stream_url |-> "", is_working |-> FALSE, response_time |-> 0,
      error_message |-> None, status_code |-> None, checked_at |-> 0 ]

\* a task of _validate_single_channel: st is its position
\*   "none"     not a task of the batch in flight
\*   "waiting"  blocked in `async with semaphore`
\*   "primary"  holds a slot, awaiting the probe of channel.stream_url
\*   "alt"      holds a slot, awaiting the probe of alt_urls[alt]
\*   "done"     returned its result dict; "raised" ended with an exception
\* url is channel.stream_url as the task loaded it, primary the outcome of its
\* probe, promoted the address assigned to channel.stream_url (None if none),
\* res the returned dict.  probed records, for the properties, every probe
\* the task awaited: <<address, outcome>> in the order they returned.
NoTask ==
    [ st |-> "none", url |-> "", alt |-> 0, primary |-> EmptyUrlOutcome,
      promoted |-> None, res |-> NoResult, probed |-> <<>> ]

\* the attribute values a run assigned to a Channel object (new) and the
\* values the object was loaded with (old); set is FALSE for untouched objects
NoPending == [set |-> FALSE, old |-> NewChannel(None), new |-> NewChannel(None)]

IdleRun ==
    [ pc            |-> "idle",
      playlist_id   |-> MissingPlaylist,
      log_id        |-> 0,
      channels      |-> <<>>,
      limit         |-> 0,
      sem           |-> 0,
      i             |-> 0,
      task          |-> [c \in Channels |-> NoTask],
      all_results   |-> <<>>,
      n             |-> 0,
      pending       |-> [c \in Channels |-> NoPending],
      working_count |-> 0,
      failed_count  |-> 0 ]

\* validate_all_playlists: pc is its position
\*   "idle"        not called
\*   "loop"        in the loop over playlists, at playlists[k]
\*   "generate"    loop ended, generate_unified_playlist not yet called
\*   "generating"  awaiting generate_unified_playlist
\*   "returned"    returned results; "raised" ended with an exception
\* generated counts the calls of generate_unified_playlist it made.
IdleAll ==
    [ pc |-> "idle", playlists |-> <<>>, k |-> 0, results |-> <<>>, generated |-> 0 ]

\* static/playlist.m3u: whether it exists, and its lines
NoFile == [exists |-> FALSE, lines |-> <<>>]

\* generate_unified_playlist: pc is its position
\*   "idle"      not called
\*   "selected"  channel_data selected, deduplicated and rendered (content)
\*   "open"      inside `with open(file_path, 'w')`: file truncated, content
\*               handed to f.write
\*   "returned", "raised"
\* selected is the result of its query, channel_data the deduplicated list,
\* previous the file as it was when open() truncated it.
IdleGenerate ==
    [ pc |-> "idle", caller |-> "", selected |-> <<>>, channel_data |-> <<>>,
      content |-> <<>>, previous |-> NoFile ]

\* the last response of GET /playlist.m3u (status 0: none yet)
NotServed == [status |-> 0, lines |-> <<>>]

\* an M3UParser that was given nothing: content is the text to parse,
\* channels the records parsed or given, unique what deduplicate_channels
\* returned, text what generate_m3u_content returned, again the records
\* parsed from text; raised tells that the last call raised
IdleCodec ==
    [pc |-> "idle", content |-> "", channels |-> <<>>, unique |-> <<>>, text |-> "",
     again |-> <<>>, raised |-> FALSE]

\* a call of validate_stream_url that was not made: url is the address
\* given, requests the requests issued so far, elapsed the time since
\* start_time, outcome the tuple returned; raised tells that the call raised.
\* failures and statuses record, for the properties, the exceptions the
\* requests raised and the status codes of the responses received.
IdleProbe ==
    [pc |-> "idle", url |-> "", requests |-> <<>>, elapsed |-> 0, failures |-> <<>>,
     statuses |-> <<>>, outcome |-> <<>>, raised |-> FALSE]

\* number of Thread objects a ValidationScheduler may create
MaxThreads == 3

Threads == 1..MaxThreads

\* a ValidationScheduler after __init__ (scheduler.py 22-27): _thread is the
\* thread of the last start() (0 for None), thread[t] the position of thread
\* t in _run_scheduler, jobs the number of jobs of the schedule module,
\* caller the position of the thread that calls start() and stop(), and
\* last the last call that returned
IdleScheduler ==
    [_running |-> FALSE, _stop_event |-> FALSE, _thread |-> 0, jobs |-> 0,
     thread |-> [t \in Threads |-> "unstarted"], caller |-> "idle", last |-> "none"]

InitConsolidation ==
    /\ validate_all = IdleAll
    /\ generate = IdleGenerate
    /\ playlist_file = NoFile
    /\ served = NotServed
    /\ codec = IdleCodec
    /\ probe = IdleProbe
    /\ scheduler = IdleScheduler
    /\ deleted = {}

Init ==
    /\ InitConsolidation
    /\ settings \in [ validation_retry_attempts : RetryValues,
                      validation_concurrent_limit : LimitValues ]
    /\ channels = [c \in Channels |->
                      InitialChannel(c, settings.validation_retry_attempts)]
    /\ playlists = [p \in Playlists |-> [is_active |-> TRUE, last_validated |-> None]]
    /\ validation_logs = <<>>
    /\ validation_results = <<>>
    /\ run = [r \in Procs |-> IdleRun]

(***************************************************************************)
(* Helpers                                                                 *)
(***************************************************************************)
\* db.query(Channel).filter(playlist_id == p, is_active == True).all()
ActiveChannelsOf(p) ==
    SelectSeq([c \in 1..NumChannels |-> c],
              LAMBDA c : /\ c \notin deleted
                         /\ channels[c].playlist_id = p
                         /\ channels[c].is_active)

\* channels[i:i + batch_size] (i is 0-based, as in the code)
Batch(chs, i) ==
    SubSeq(chs, i + 1, IF i + batch_size < Len(chs) THEN i + batch_size ELSE Len(chs))

SeqToSet(s) == {s[j] : j \in 1..Len(s)}

\* the tasks validate_channels_batch creates for a batch: all start waiting
BatchTasks(batch) ==
    [c \in Channels |-> IF c \in SeqToSet(batch) THEN [NoTask EXCEPT !.st = "waiting"]
                        ELSE NoTask]

\* the except branch of validate_playlist when its db.commit() succeeds:
\* the log row becomes 'failed' with the error text
LogFailed(log, now, err) ==
    [log EXCEPT !.status = "failed", !.completed_at = Some(now), !.error_details = Some(err)]

Ended(r) == run[r].pc \in {"idle", "done", "raised", "crashed"}

(***************************************************************************)
(* validate_playlist, up to the creation of the ValidationLog              *)
(***************************************************************************)
\* Variant of NewLog created before the channels are counted
NewLogWithoutCount(p, total) ==
    [ playlist_id      |-> p,
      status           |-> "running",
      total_channels   |-> 0,
      working_channels |-> 0,
      failed_channels  |-> 0,
      completed_at     |-> None,
      message          |-> None,
      error_details    |-> None ]

NewLog(p, total) ==
    [ playlist_id      |-> p,
      status           |-> "running",
      total_channels   |-> total,
      working_channels |-> 0,
      failed_channels  |-> 0,
      completed_at     |-> None,
      message          |-> None,
      error_details    |-> None ]

\* the playlist does not exist: ValueError before any log is created
StartRunNotFound(r, p) ==
    /\ Ended(r)
    /\ p \notin DOMAIN playlists
    /\ run' = [run EXCEPT ![r] = [IdleRun EXCEPT !.pc = "raised", !.playlist_id = p]]
    /\ UNCHANGED <<channels, playlists, settings, validation_logs, validation_results, consolidation>>

\* the query of the playlist (line 156) or of its channels (160-162) raises:
\* the except branch finds no validation_log among the locals and re-raises
StartRunLoadFails(r, p) ==
    /\ Ended(r)
    /\ p \in DOMAIN playlists
    /\ run' = [run EXCEPT ![r] = [IdleRun EXCEPT !.pc = "raised", !.playlist_id = p]]
    /\ UNCHANGED <<channels, playlists, settings, validation_logs, validation_results, consolidation>>

\* no active channel: returns the empty summary, no log is created
StartRunEmpty(r, p) ==
    /\ Ended(r)
    /\ p \in DOMAIN playlists
    /\ ActiveChannelsOf(p) = <<>>
    /\ run' = [run EXCEPT ![r] = [IdleRun EXCEPT !.pc = "done", !.playlist_id = p]]
    /\ UNCHANGED <<channels, playlists, settings, validation_logs, validation_results, consolidation>>

\* loads the active channels and commits the log with status 'running'
StartRun(r, p) ==
    /\ Ended(r)
    /\ p \in DOMAIN playlists
    /\ ActiveChannelsOf(p) # <<>>
    /\ validation_logs' = Append(validation_logs, NewLog(p, Len(ActiveChannelsOf(p))))
    /\ run' = [run EXCEPT ![r] =
                 [IdleRun EXCEPT !.pc = "semaphore", !.playlist_id = p,
                                 !.log_id = Len(validation_logs) + 1,
                                 !.channels = ActiveChannelsOf(p)]]
    /\ UNCHANGED <<channels, playlists, settings, validation_results, consolidation>>

\* asyncio.Semaphore(validation_concurrent_limit), then the first batch
CreateSemaphore(r) ==
    /\ run[r].pc = "semaphore"
    /\ settings.validation_concurrent_limit >= 0
    /\ run' = [run EXCEPT ![r].pc = "tasks",
                          ![r].limit = settings.validation_concurrent_limit,
                          ![r].sem = settings.validation_concurrent_limit,
                          ![r].i = 0,
                          ![r].task = BatchTasks(Batch(run[r].channels, 0))]
    /\ UNCHANGED <<channels, playlists, settings, validation_logs, validation_results, consolidation>>

\* asyncio.Semaphore raises ValueError for a negative value; the except
\* branch marks the log failed and re-raises
CreateSemaphoreRaises(r) ==
    /\ run[r].pc = "semaphore"
    /\ settings.validation_concurrent_limit < 0
    /\ validation_logs' = [validation_logs EXCEPT ![run[r].log_id] =
                              LogFailed(@, run[r].log_id, "ValueError")]
    /\ run' = [run EXCEPT ![r].pc = "raised"]
    /\ UNCHANGED <<channels, playlists, settings, validation_results, consolidation>>

(***************************************************************************)
(* _validate_single_channel: one task per channel of the batch             *)
(***************************************************************************)
CurrentBatch(r) == Batch(run[r].channels, run[r].i)

\* asyncio.Semaphore wakes its waiters in the order they arrived, and gather
\* starts the tasks in batch order
FirstWaiting(r, c) ==
    \E j \in 1..Len(CurrentBatch(r)) :
        /\ CurrentBatch(r)[j] = c
        /\ run[r].task[c].st = "waiting"
        /\ \A h \in 1..(j - 1) : run[r].task[CurrentBatch(r)[h]].st # "waiting"

\* the dict the task returns (lines 136-145)
ResultDict(c, url, o, now) ==
    [ channel_id    |-> c,
      stream_url    |-> url,
      is_working    |-> o.is_working,
      response_time |-> o.response_time,
      error_message |-> o.error_message,
      status_code   |-> o.status_code,
      checked_at    |-> now ]

\* Variant of AltOutcome that leaves out `error_message = None`
AltOutcomeKeepsError(primary, alt) ==
    Outcome(TRUE, alt.response_time, primary.error_message, alt.status_code)

\* lines 124-131: what a working alternative leaves in the task's variables
\* (primary is the outcome of the main URL, alt the outcome of the alternative)
AltOutcome(primary, alt) ==
    Outcome(TRUE, alt.response_time, None, alt.status_code)

\* Variant of FallbackOutcome in which every alternative probe overwrites
\* the four variables, so the last one probed is what remains
FallbackOutcomeOverwritten(primary, last_alt) == last_alt

\* lines 112-134 when the loop ends without a working alternative (or is
\* never entered): is_working, response_time, error_message and status_code
\* still hold the outcome of the main URL (last_alt is the outcome of the
\* last alternative probed, the main URL's own when none was)
FallbackOutcome(primary, last_alt) == primary

\* Variant of AlternativesToTry in which a timeout of the main URL ends the
\* task without any alternative tried
AlternativesUnlessTimeout(o, alternative_urls) ==
    IF o.is_working \/ o.error_message = Some("Request timeout") \/ alternative_urls = None
    THEN <<>>
    ELSE IF JsonLoads(alternative_urls[1]).ok THEN JsonLoads(alternative_urls[1]).value
    ELSE <<>>

\* `if not is_working and channel.alternative_urls` followed by json.loads:
\* the list of alternatives the loop iterates, empty when there is nothing
\* to try (main URL works, column NULL, text not decodable)
AlternativesToTry(o, alternative_urls) ==
    IF o.is_working \/ alternative_urls = None THEN <<>>
    ELSE IF JsonLoads(alternative_urls[1]).ok THEN JsonLoads(alternative_urls[1]).value
    ELSE <<>>

\* `async with semaphore` entered: the slot is taken and the expired Channel
\* object is reloaded from its row (channel.name, channel.stream_url)
TaskAcquire(r, c) ==
    /\ run[r].pc = "tasks"
    /\ FirstWaiting(r, c)
    /\ run[r].sem > 0
    /\ c \notin deleted
    /\ run' = [run EXCEPT ![r].sem = @ - 1,
                          ![r].task[c].st = "primary",
                          ![r].task[c].url = channels[c].stream_url]
    /\ UNCHANGED <<channels, playlists, settings, validation_logs, validation_results, consolidation>>

\* Variant of TaskRaises in which the slot is not given back
TaskRaisesHoldingSlot(r, c) ==
    /\ run[r].pc = "tasks"
    /\ FirstWaiting(r, c)
    /\ run[r].sem > 0
    /\ run' = [run EXCEPT ![r].sem = @ - 1, ![r].task[c].st = "raised"]
    /\ UNCHANGED <<channels, playlists, settings, validation_logs, validation_results, consolidation>>

\* the reload of the Channel object raises (database error, or
\* ObjectDeletedError when the row is gone): the exception leaves
\* `async with`, which gives the slot back, and ends the task
TaskRaises(r, c) ==
    /\ run[r].pc = "tasks"
    /\ FirstWaiting(r, c)
    /\ run[r].sem > 0
    /\ run' = [run EXCEPT ![r].task[c].st = "raised"]
    /\ UNCHANGED <<channels, playlists, settings, validation_logs, validation_results, consolidation>>

\* the task returns: result dict built, slot released
TaskReturn(r, c, url, o, promoted) ==
    [run EXCEPT ![r].sem = @ + 1,
                ![r].task[c].st = "done",
                ![r].task[c].promoted = promoted,
                ![r].task[c].res = ResultDict(c, url, o, run[r].log_id)]

\* the probe of the main URL returns outcome o
TaskPrimary(r, c, o) ==
    /\ run[r].pc = "tasks"
    /\ run[r].task[c].st = "primary"
    /\ o \in validate_stream_url(run[r].task[c].url)
    /\ LET probed == <<run[r].task[c].url, o>>
       IN  IF AlternativesToTry(o, channels[c].alternative_urls) = <<>>
           THEN run' = [TaskReturn(r, c, run[r].task[c].url, FallbackOutcome(o, o), None)
                           EXCEPT ![r].task[c].primary = o,
                                  ![r].task[c].probed = <<probed>>]
           ELSE run' = [run EXCEPT ![r].task[c].st = "alt",
                                   ![r].task[c].alt = 1,
                                   ![r].task[c].primary = o,
                                   ![r].task[c].probed = <<probed>>]
    /\ UNCHANGED <<channels, playlists, settings, validation_logs, validation_results, consolidation>>

\* the probe of alternative number task.alt returns outcome o
TaskAlt(r, c, o) ==
    LET t == run[r].task[c]
        alt_urls == AlternativesToTry(t.primary, channels[c].alternative_urls)
        alt_url == alt_urls[t.alt]
    IN  /\ run[r].pc = "tasks"
        /\ t.st = "alt"
        /\ o \in validate_stream_url(alt_url)
        /\ IF o.is_working
           THEN run' = [TaskReturn(r, c, alt_url, AltOutcome(t.primary, o), Some(alt_url))
                           EXCEPT ![r].task[c].probed = Append(@, <<alt_url, o>>)]
           ELSE IF t.alt < Len(alt_urls)
           THEN run' = [run EXCEPT ![r].task[c].alt = @ + 1,
                                   ![r].task[c].probed = Append(@, <<alt_url, o>>)]
           ELSE run' = [TaskReturn(r, c, t.url, FallbackOutcome(t.primary, o), None)
                           EXCEPT ![r].task[c].probed = Append(@, <<alt_url, o>>)]
        /\ UNCHANGED <<channels, playlists, settings, validation_logs, validation_results, consolidation>>

(***************************************************************************)
(* validate_channels_batch returns; _save_validation_results               *)
(***************************************************************************)
BatchGathered(r) ==
    /\ run[r].pc = "tasks"
    /\ \A c \in SeqToSet(CurrentBatch(r)) : run[r].task[c].st \in {"done", "raised"}

\* Variant of ValidResults that turns an exception into a failed result
\* instead of leaving the channel out
RECURSIVE ValidResultsMarkFailed(_, _)
ValidResultsMarkFailed(tasks, batch) ==
    IF batch = <<>> THEN <<>>
    ELSE (IF tasks[Head(batch)].st = "done" THEN <<tasks[Head(batch)].res>>
          ELSE <<[NoResult EXCEPT !.channel_id = Head(batch),
                                  !.error_message = Some("Exception")]>>)
         \o ValidResultsMarkFailed(tasks, Tail(batch))

\* asyncio.gather keeps the order of the tasks; exceptions are filtered out
RECURSIVE ValidResults(_, _)
ValidResults(tasks, batch) ==
    IF batch = <<>> THEN <<>>
    ELSE (IF tasks[Head(batch)].st = "done" THEN <<tasks[Head(batch)].res>> ELSE <<>>)
         \o ValidResults(tasks, Tail(batch))

\* the ValidationResult row of one result dict (lines 265-273)
ResultRow(validation_log_id, result) ==
    [ validation_log_id |-> validation_log_id,
      channel_id        |-> result.channel_id,
      is_working        |-> result.is_working,
      response_time     |-> result.response_time,
      status_code       |-> result.status_code,
      error_message     |-> result.error_message,
      checked_at        |-> result.checked_at ]

RECURSIVE ResultRows(_, _)
ResultRows(validation_log_id, results) ==
    IF results = <<>> THEN <<>>
    ELSE <<ResultRow(validation_log_id, Head(results))>>
         \o ResultRows(validation_log_id, Tail(results))

\* Variants of RowsToSave: all_results (already extended by the batch) passed
\* instead of batch_results ...
RowsToSaveAllResults(r, batch_results) ==
    ResultRows(run[r].log_id, run[r].all_results \o batch_results)

\* ... and the save moved after the loop over the batches
RowsToSaveAfterLoop(r, batch_results) ==
    IF run[r].i + batch_size < Len(run[r].channels) THEN <<>>
    ELSE ResultRows(run[r].log_id, run[r].all_results \o batch_results)

\* line 200: the rows _save_validation_results is given for the batch
RowsToSave(r, batch_results) == ResultRows(run[r].log_id, batch_results)

\* the UPDATE the commit of a batch flushes for a Channel object whose
\* stream_url the task assigned: only an attribute whose value differs from
\* the loaded one is written
FlushPromotion(row, task) ==
    IF task.st = "done" /\ task.promoted # None /\ task.promoted[1] # task.url
    THEN [row EXCEPT !.stream_url = task.promoted[1]]
    ELSE row

\* lines 196-200 with a commit that succeeds: the rows of the batch and the
\* promoted addresses become visible together; then the next batch starts,
\* or finalization when this was the last one.  (The UPDATE of a promoted
\* address matches no row when the channel was deleted, and the commit
\* raises; validation_results.channel_id is not checked against channels by
\* SQLite, whose foreign keys are off unless a PRAGMA turns them on.)
GatherBatch(r) ==
    LET batch_results == ValidResults(run[r].task, CurrentBatch(r))
        next_i == run[r].i + batch_size
    IN  /\ BatchGathered(r)
        /\ \A c \in deleted : FlushPromotion(channels[c], run[r].task[c]) = channels[c]
        /\ validation_results' = validation_results \o RowsToSave(r, batch_results)
        /\ channels' = [c \in Channels |-> FlushPromotion(channels[c], run[r].task[c])]
        /\ run' = [run EXCEPT
                     ![r].all_results = @ \o batch_results,
                     ![r].i = next_i,
                     ![r].pc = IF next_i < Len(run[r].channels) THEN "tasks" ELSE "finalize",
                     ![r].n = 1,
                     ![r].task = IF next_i < Len(run[r].channels)
                                 THEN BatchTasks(Batch(run[r].channels, next_i))
                                 ELSE [c \in Channels |-> NoTask]]
        /\ UNCHANGED <<playlists, settings, validation_logs, consolidation>>

\* the commit of _save_validation_results raises: the transaction is rolled
\* back, and the db.commit() of the except branch raises on the same
\* session, so the log row keeps status 'running'
GatherBatchCommitFails(r) ==
    /\ BatchGathered(r)
    /\ run' = [run EXCEPT ![r].pc = "raised",
                          ![r].all_results = @ \o ValidResults(run[r].task, CurrentBatch(r))]
    /\ UNCHANGED <<channels, playlists, settings, validation_logs, validation_results, consolidation>>

(***************************************************************************)
(* Finalization: lines 202-236                                             *)
(***************************************************************************)
\* Variants of ApplyResult with a slip in one assignment, used to show that
\* the properties below depend on it: the threshold compared with > ...
ApplyResultStrict(row, result, retry_attempts) ==
    LET failures == IF result.is_working THEN 0 ELSE row.failure_count + 1
    IN  [row EXCEPT
           !.is_working    = result.is_working,
           !.last_checked  = Some(result.checked_at),
           !.check_count   = @ + 1,
           !.response_time = Some(result.response_time),
           !.failure_count = failures,
           !.is_active     = IF ~result.is_working /\ failures > retry_attempts
                             THEN FALSE ELSE @]

\* ... failure_count kept on success ...
ApplyResultNoReset(row, result, retry_attempts) ==
    LET failures == IF result.is_working THEN row.failure_count ELSE row.failure_count + 1
    IN  [row EXCEPT
           !.is_working    = result.is_working,
           !.last_checked  = Some(result.checked_at),
           !.check_count   = @ + 1,
           !.response_time = Some(result.response_time),
           !.failure_count = failures,
           !.is_active     = IF ~result.is_working /\ failures >= retry_attempts
                             THEN FALSE ELSE @]

\* ... is_active assigned on both branches (True on success) ...
ApplyResultReactivates(row, result, retry_attempts) ==
    LET failures == IF result.is_working THEN 0 ELSE row.failure_count + 1
    IN  [row EXCEPT
           !.is_working    = result.is_working,
           !.last_checked  = Some(result.checked_at),
           !.check_count   = @ + 1,
           !.response_time = Some(result.response_time),
           !.failure_count = failures,
           !.is_active     = IF ~result.is_working /\ failures >= retry_attempts
                             THEN FALSE ELSE result.is_working \/ @]

\* ... and response_time assigned for a working result only
ApplyResultTimeOfWorking(row, result, retry_attempts) ==
    LET failures == IF result.is_working THEN 0 ELSE row.failure_count + 1
    IN  [row EXCEPT
           !.is_working    = result.is_working,
           !.last_checked  = Some(result.checked_at),
           !.check_count   = @ + 1,
           !.response_time = IF result.is_working THEN Some(result.response_time) ELSE @,
           !.failure_count = failures,
           !.is_active     = IF ~result.is_working /\ failures >= retry_attempts
                             THEN FALSE ELSE @]

\* lines 209-224: the attribute values assigned to the Channel object that
\* was loaded as row, for one result
ApplyResult(row, result, retry_attempts) ==
    LET failures == IF result.is_working THEN 0 ELSE row.failure_count + 1
    IN  [row EXCEPT
           !.is_working    = result.is_working,
           !.last_checked  = Some(result.checked_at),
           !.check_count   = @ + 1,
           !.response_time = Some(result.response_time),
           !.failure_count = failures,
           !.is_active     = IF ~result.is_working /\ failures >= retry_attempts
                             THEN FALSE ELSE @]

\* Variant of FlushChannel whose UPDATE leaves the is_active column out
FlushChannelWithoutActive(row, pending) ==
    IF ~pending.set THEN row
    ELSE [pending.new EXCEPT !.stream_url = row.stream_url, !.is_active = row.is_active]

\* the UPDATE a commit flushes for a Channel object: the attributes whose
\* assigned value differs from the loaded one, and no others
FlushChannel(row, pending) ==
    IF ~pending.set THEN row
    ELSE [ playlist_id      |-> row.playlist_id,
           alternative_urls |-> row.alternative_urls,
           stream_url       |-> row.stream_url,
           is_active        |-> IF pending.new.is_active # pending.old.is_active
                                THEN pending.new.is_active ELSE row.is_active,
           is_working       |-> IF pending.new.is_working # pending.old.is_working
                                THEN pending.new.is_working ELSE row.is_working,
           last_checked     |-> IF pending.new.last_checked # pending.old.last_checked
                                THEN pending.new.last_checked ELSE row.last_checked,
           check_count      |-> IF pending.new.check_count # pending.old.check_count
                                THEN pending.new.check_count ELSE row.check_count,
           failure_count    |-> IF pending.new.failure_count # pending.old.failure_count
                                THEN pending.new.failure_count ELSE row.failure_count,
           response_time    |-> IF pending.new.response_time # pending.old.response_time
                                THEN pending.new.response_time ELSE row.response_time ]

Finalizing(r) == run[r].pc = "finalize" /\ run[r].n <= Len(run[r].all_results)

\* one iteration of `for result in all_results`: the query reloads the
\* expired Channel object from its row, then the attributes are assigned;
\* `if channel:` skips the result of a channel whose row is gone
FinalizeResult(r) ==
    LET result == run[r].all_results[run[r].n]
        c == result.channel_id
        new == ApplyResult(channels[c], result, settings.validation_retry_attempts)
    IN  /\ Finalizing(r)
        /\ IF c \in deleted
           THEN run' = [run EXCEPT ![r].n = @ + 1]
           ELSE run' = [run EXCEPT
                     ![r].pending[c] = [set |-> TRUE, old |-> channels[c], new |-> new],
                     ![r].working_count = IF result.is_working THEN @ + 1 ELSE @,
                     ![r].failed_count = IF result.is_working THEN @ ELSE @ + 1,
                     ![r].n = @ + 1]
        /\ UNCHANGED <<channels, playlists, settings, validation_logs, validation_results, consolidation>>

\* the query of an iteration raises (database error): the except branch
\* marks the log failed and its commit flushes the Channel objects already
\* assigned
FinalizeQueryRaises(r) ==
    /\ Finalizing(r)
    /\ channels' = [c \in Channels |-> FlushChannel(channels[c], run[r].pending[c])]
    /\ validation_logs' = [validation_logs EXCEPT ![run[r].log_id] =
                              LogFailed(@, run[r].log_id, "OperationalError")]
    /\ run' = [run EXCEPT ![r].pc = "raised"]
    /\ UNCHANGED <<playlists, settings, validation_results, consolidation>>

\* lines 226-231 applied to the log row
LogCompleted(log, now, working_count, failed_count, validated) ==
    [log EXCEPT !.status = "completed",
                !.completed_at = Some(now),
                !.working_channels = working_count,
                !.failed_channels = failed_count,
                !.message = Some(validated)]

\* lines 226-236 with a commit that succeeds
FinalCommit(r) ==
    /\ run[r].pc = "finalize"
    /\ run[r].n > Len(run[r].all_results)
    /\ channels' = [c \in Channels |-> FlushChannel(channels[c], run[r].pending[c])]
    /\ validation_logs' = [validation_logs EXCEPT ![run[r].log_id] =
                              LogCompleted(@, run[r].log_id, run[r].working_count,
                                           run[r].failed_count, Len(run[r].all_results))]
    /\ playlists' = [playlists EXCEPT ![run[r].playlist_id].last_validated =
                                          Some(run[r].log_id)]
    /\ run' = [run EXCEPT ![r].pc = "done"]
    /\ UNCHANGED <<settings, validation_results, consolidation>>

\* the commit of line 236 raises: nothing of the finalization is persisted,
\* and the commit of the except branch raises on the same session
FinalCommitFails(r) ==
    /\ run[r].pc = "finalize"
    /\ run[r].n > Len(run[r].all_results)
    /\ run' = [run EXCEPT ![r].pc = "raised"]
    /\ UNCHANGED <<channels, playlists, settings, validation_logs, validation_results, consolidation>>

(***************************************************************************)
(* Finalization in a run started as a BackgroundTasks task: lines 202-236  *)
(* contain no await, so on the API event loop no request handler runs      *)
(* between the first query of the loop and the commit.  The whole loop is  *)
(* one step, made of the same assignments and the same flush.              *)
(***************************************************************************)
\* the Channel objects assigned by the first k iterations of the loop
\* (`if channel:` skips the result of a channel whose row is gone)
PendingAfter(results, k, retry_attempts) ==
    [c \in Channels |->
        IF c \notin deleted /\ \E j \in 1..k : results[j].channel_id = c
        THEN LET j == CHOOSE j \in 1..k : results[j].channel_id = c
             IN  [set |-> TRUE, old |-> channels[c],
                  new |-> ApplyResult(channels[c], results[j], retry_attempts)]
        ELSE NoPending]

\* Variant of CountResults that counts the results of the last batch only
CountResultsLastBatch(results, k, working) ==
    Cardinality({j \in 1..k : /\ j > k - batch_size
                              /\ results[j].channel_id \notin deleted
                              /\ results[j].is_working = working})

\* working_count / failed_count after the first k iterations: the results
\* whose channel the query of line 207 still finds
CountResults(results, k, working) ==
    Cardinality({j \in 1..k : /\ results[j].channel_id \notin deleted
                              /\ results[j].is_working = working})

FinalizeRun(r) ==
    LET results == run[r].all_results
        pending == PendingAfter(results, Len(results), settings.validation_retry_attempts)
    IN  /\ run[r].pc = "finalize"
        /\ run[r].n = 1
        /\ channels' = [c \in Channels |-> FlushChannel(channels[c], pending[c])]
        /\ validation_logs' = [validation_logs EXCEPT ![run[r].log_id] =
                                  LogCompleted(@, run[r].log_id,
                                               CountResults(results, Len(results), TRUE),
                                               CountResults(results, Len(results), FALSE),
                                               Len(results))]
        /\ playlists' = [playlists EXCEPT ![run[r].playlist_id].last_validated =
                                              Some(run[r].log_id)]
        /\ run' = [run EXCEPT ![r].pc = "done",
                              ![r].pending = pending,
                              ![r].n = Len(results) + 1,
                              ![r].working_count = CountResults(results, Len(results), TRUE),
                              ![r].failed_count = CountResults(results, Len(results), FALSE)]
        /\ UNCHANGED <<settings, validation_results, consolidation>>

\* the query of iteration k raises: the except branch commits the log as
\* failed together with the Channel objects of iterations 1..k-1
FinalizeRunRaises(r, k) ==
    LET results == run[r].all_results
        pending == PendingAfter(results, k - 1, settings.validation_retry_attempts)
    IN  /\ run[r].pc = "finalize"
        /\ run[r].n = 1
        /\ k \in 1..Len(results)
        /\ channels' = [c \in Channels |-> FlushChannel(channels[c], pending[c])]
        /\ validation_logs' = [validation_logs EXCEPT ![run[r].log_id] =
                                  LogFailed(@, run[r].log_id, "OperationalError")]
        /\ run' = [run EXCEPT ![r].pc = "raised",
                              ![r].pending = pending,
                              ![r].n = k,
                              ![r].working_count = CountResults(results, k - 1, TRUE),
                              ![r].failed_count = CountResults(results, k - 1, FALSE)]
        /\ UNCHANGED <<playlists, settings, validation_results, consolidation>>

\* Variant of FinalizeRunCommitFails: the exception is raised after the
\* commit of line 236 went through, and the except branch then commits
FinalizeRunFailsAfterCommit(r) ==
    /\ run[r].pc = "done"
    /\ run[r].log_id # 0
    /\ validation_logs[run[r].log_id].status = "completed"
    /\ validation_logs' = [validation_logs EXCEPT ![run[r].log_id] =
                              LogFailed(@, run[r].log_id, "Exception")]
    /\ run' = [run EXCEPT ![r].pc = "raised"]
    /\ UNCHANGED <<channels, playlists, settings, validation_results, consolidation>>

\* the commit of line 236 raises after the whole loop
FinalizeRunCommitFails(r) ==
    /\ run[r].pc = "finalize"
    /\ run[r].n = 1
    /\ run' = [run EXCEPT ![r].pc = "raised"]
    /\ UNCHANGED <<channels, playlists, settings, validation_logs, validation_results, consolidation>>

\* the process dies while the run is in flight: only committed rows remain
Crash(r) ==
    /\ run[r].pc \in {"semaphore", "tasks", "finalize"}
    /\ run' = [run EXCEPT ![r].pc = "crashed"]
    /\ UNCHANGED <<channels, playlists, settings, validation_logs, validation_results, consolidation>>

(***************************************************************************)
(* Administrative operations                                               *)
(***************************************************************************)
\* the ChannelUpdate bodies tried: one that sets is_active, one that sets
\* stream_url (the unset fields are left alone by exclude_unset)
ActiveUpdates == [is_active : {Some(TRUE), Some(FALSE)}, stream_url : {None}]
UrlUpdates == [is_active : {None}, stream_url : {Some(AdminUrl)}]

\* Variant of update_channel that clears failure_count when it activates
update_channel_clearing_failures(c, channel_data) ==
    /\ c \in DOMAIN channels
    /\ c \notin deleted
    /\ channels' = [channels EXCEPT
                      ![c].is_active = IF channel_data.is_active # None
                                       THEN channel_data.is_active[1] ELSE @,
                      ![c].failure_count = IF channel_data.is_active = Some(TRUE) THEN 0 ELSE @,
                      ![c].stream_url = IF channel_data.stream_url # None
                                        THEN channel_data.stream_url[1] ELSE @]
    /\ UNCHANGED <<playlists, settings, validation_logs, validation_results, run, consolidation>>

\* PUT /channels/{id}: the provided fields are assigned and committed
update_channel(c, channel_data) ==
    /\ c \in DOMAIN channels
    /\ c \notin deleted
    /\ channels' = [channels EXCEPT
                      ![c].is_active = IF channel_data.is_active # None
                                       THEN channel_data.is_active[1] ELSE @,
                      ![c].stream_url = IF channel_data.stream_url # None
                                        THEN channel_data.stream_url[1] ELSE @]
    /\ UNCHANGED <<playlists, settings, validation_logs, validation_results, run, consolidation>>

\* DELETE /channels/{id}: db.delete loads channel.validation_results and
\* sets their channel_id to NULL, which the NOT NULL column refuses, so only
\* a channel without any ValidationResult row (never validated before, no
\* row committed by a run in flight) is deleted
delete_channel(c) ==
    /\ c \in DOMAIN channels
    /\ c \notin deleted
    /\ channels[c].check_count = 0
    /\ \A k \in DOMAIN validation_results : validation_results[k].channel_id # c
    /\ deleted' = deleted \cup {c}
    /\ UNCHANGED <<channels, playlists, settings, validation_logs, validation_results, run,
                   validate_all, generate, playlist_file, served, codec, probe, scheduler>>

\* the ConfigUpdate bodies tried: one that sets validation_retry_attempts,
\* one that sets validation_concurrent_limit
RetryUpdates ==
    [validation_retry_attempts : {Some(v) : v \in RetryValues}, validation_concurrent_limit : {None}]
LimitUpdates ==
    [validation_retry_attempts : {None}, validation_concurrent_limit : {Some(v) : v \in LimitValues}]

\* PUT /config: the provided fields are assigned to the settings singleton
update_configuration(config_update) ==
    /\ settings' = [settings EXCEPT
                      !.validation_retry_attempts =
                          IF config_update.validation_retry_attempts # None
                          THEN config_update.validation_retry_attempts[1] ELSE @,
                      !.validation_concurrent_limit =
                          IF config_update.validation_concurrent_limit # None
                          THEN config_update.validation_concurrent_limit[1] ELSE @]
    /\ UNCHANGED <<channels, playlists, validation_logs, validation_results, run, consolidation>>

(***************************************************************************)
(* Specifications.  Runs over one playlist are serialized by the caller:   *)
(* one process starts them, and the administrative requests interleave     *)
(* at every point where the process can be suspended.                      *)
(***************************************************************************)
\* at most MaxLogs runs get as far as creating their log
StartRunBounded(r, p) ==
    /\ Len(validation_logs) < MaxLogs
    /\ StartRun(r, p)

ProbeStep(r) ==
    \/ \E p \in PlaylistIds : StartRunNotFound(r, p)
    \/ \E p \in PlaylistIds : StartRunLoadFails(r, p)
    \/ \E p \in PlaylistIds : StartRunEmpty(r, p)
    \/ \E p \in PlaylistIds : StartRunBounded(r, p)
    \/ CreateSemaphore(r)
    \/ CreateSemaphoreRaises(r)
    \/ \E c \in Channels : TaskAcquire(r, c)
    \/ \E c \in Channels : TaskRaises(r, c)
    \/ \E c \in Channels, o \in NetworkOutcomes \cup {EmptyUrlOutcome} : TaskPrimary(r, c, o)
    \/ \E c \in Channels, o \in NetworkOutcomes \cup {EmptyUrlOutcome} : TaskAlt(r, c, o)
    \/ GatherBatch(r)
    \/ GatherBatchCommitFails(r)
    \/ Crash(r)

\* the run's own steps on the API event loop
ApiRun(r) ==
    \/ ProbeStep(r)
    \/ FinalizeRun(r)
    \/ \E k \in 1..NumChannels : FinalizeRunRaises(r, k)
    \/ FinalizeRunCommitFails(r)

\* the run's own steps on the scheduler's thread: its finalization loop
\* interleaves with the request handlers of the API event loop
ThreadRun(r) ==
    \/ ProbeStep(r)
    \/ FinalizeResult(r)
    \/ FinalizeQueryRaises(r)
    \/ FinalCommit(r)
    \/ FinalCommitFails(r)

\* requests that change what escalation reads: is_active, retry_attempts
StatusAdmin ==
    \/ \E c \in Channels, d \in ActiveUpdates : update_channel(c, d)
    \/ \E d \in RetryUpdates : update_configuration(d)

\* requests that change what probing reads: stream_url, concurrent_limit
ProbeAdmin ==
    \/ \E c \in Channels, d \in UrlUpdates : update_channel(c, d)
    \/ \E d \in LimitUpdates : update_configuration(d)

Next ==
    \/ ApiRun("api")
    \/ StatusAdmin

Spec == Init /\ [][Next]_vars

NextProbe ==
    \/ ApiRun("api")
    \/ ProbeAdmin

SpecProbe == Init /\ [][NextProbe]_vars

NextThread ==
    \/ ThreadRun("scheduler")
    \/ StatusAdmin

SpecThread == Init /\ [][NextThread]_vars

(***************************************************************************)
(* Python's str methods, on the strings of the model (ASCII letters,       *)
(* digits, punctuation, blank, tab, carriage return and line feed)         *)
(***************************************************************************)
\* s[i - 1] of Python: the i-th character as a string
CharAt(s, i) == SubSeq(s, i, i)

\* s[i - 1:] of Python
From(s, i) == SubSeq(s, i, Len(s))

startswith(s, prefix) == Len(s) >= Len(prefix) /\ SubSeq(s, 1, Len(prefix)) = prefix

\* the characters str.strip() removes and \S rejects
Whitespace == {" ", "\t", "\n", "\r"}

RECURSIVE lstrip(_)
lstrip(s) == IF s # "" /\ CharAt(s, 1) \in Whitespace THEN lstrip(From(s, 2)) ELSE s

RECURSIVE rstrip(_)
rstrip(s) ==
    IF s # "" /\ CharAt(s, Len(s)) \in Whitespace THEN rstrip(SubSeq(s, 1, Len(s) - 1)) ELSE s

strip(s) == rstrip(lstrip(s))

\* the position of the first character of s at or after i that is in the
\* set chars, or 0 (s.find(c, i - 1) + 1 for a one-character c)
RECURSIVE find(_, _, _)
find(s, chars, i) ==
    IF i > Len(s) THEN 0
    ELSE IF CharAt(s, i) \in chars THEN i
    ELSE find(s, chars, i + 1)

\* s.rfind(c) + 1 for a one-character c
RECURSIVE rfind(_, _, _)
rfind(s, chars, i) ==
    IF i < 1 THEN 0
    ELSE IF CharAt(s, i) \in chars THEN i
    ELSE rfind(s, chars, i - 1)

\* s.split(sep) for a one-character sep
RECURSIVE split(_, _)
split(s, sep) ==
    LET i == find(s, {sep}, 1)
    IN  IF i = 0 THEN <<s>>
        ELSE <<SubSeq(s, 1, i - 1)>> \o split(From(s, i + 1), sep)

\* sep.join(strs)
RECURSIVE join(_, _)
join(strs, sep) ==
    IF strs = <<>> THEN ""
    ELSE IF Len(strs) = 1 THEN strs[1]
    ELSE strs[1] \o sep \o join(Tail(strs), sep)

UpperLetters == "ABCDEFGHIJKLMNOPQRSTUVWXYZ"
LowerLetters == "abcdefghijklmnopqrstuvwxyz"
Digits == "0123456789"

CharsOf(s) == {CharAt(s, i) : i \in 1..Len(s)}

\* str.lower() of one character
LowerChar(c) ==
    LET at == find(UpperLetters, {c}, 1)
    IN  IF at = 0 THEN c ELSE CharAt(LowerLetters, at)

\* str.lower()
RECURSIVE Lower(_)
Lower(str) == IF str = "" THEN "" ELSE LowerChar(CharAt(str, 1)) \o Lower(From(str, 2))

\* s.replace(old, new) for one-character old and new
RECURSIVE replace(_, _, _)
replace(s, old, new) ==
    IF s = "" THEN ""
    ELSE (IF CharAt(s, 1) = old THEN new ELSE CharAt(s, 1)) \o replace(From(s, 2), old, new)

\* dict.get(key, default) on a record
Get(dict, key, default) == IF key \in DOMAIN dict THEN dict[key] ELSE default

(***************************************************************************)
(* Consolidation: generate_unified_playlist, M3UParser.deduplicate_channels *)
(* and M3UParser.save_m3u_file                                             *)
(***************************************************************************)
\* Bound: the playlists of the two-playlist specification
NumPlaylists == 2

\* the columns of a Channel that no modelled operation writes: its owner in
\* the two-playlist specification, its name and its group_title
OwnerOf(c) == IF c <= NumChannels \div 2 + 1 THEN 1 ELSE NumPlaylists
ChannelName(c) == IF c % 3 = 1 THEN "News" ELSE IF c % 3 = 2 THEN "NEWS" ELSE "Sport"
ChannelGroup(c) == IF c % 3 = 2 THEN Some("General") ELSE None

\* the query without the condition of line 325 on Channel.is_working
SelectedChannelsWorkingOrNot ==
    SelectSeq([c \in 1..NumChannels |-> c],
              LAMBDA c : /\ channels[c].is_active
                         /\ channels[c].playlist_id \in DOMAIN playlists
                         /\ playlists[channels[c].playlist_id].is_active)

\* the query of lines 321-327, in id order
SelectedChannels ==
    SelectSeq([c \in 1..NumChannels |-> c],
              LAMBDA c : /\ channels[c].is_active
                         /\ channels[c].is_working
                         /\ channels[c].playlist_id \in DOMAIN playlists
                         /\ playlists[channels[c].playlist_id].is_active)

\* lines 332-340: the dict built for one channel (the tvg columns of the
\* model's channels are NULL)
ChannelDict(c) ==
    [ name        |-> ChannelName(c),
      stream_url  |-> channels[c].stream_url,
      group_title |-> IF ChannelGroup(c) = None THEN "General" ELSE ChannelGroup(c)[1],
      tvg_id      |-> "",
      tvg_name    |-> ChannelName(c),
      tvg_logo    |-> "",
      tvg_epg     |-> "" ]

\* name_key of deduplicate_channels: f"{name.lower()}:{group.lower()}"
NameKey(channel) ==
    Lower(Get(channel, "name", "")) \o ":" \o Lower(Get(channel, "group_title", ""))

\* a pass that looks at the stream addresses only
RECURSIVE DeduplicateByAddress(_, _, _)
DeduplicateByAddress(chs, seen_urls, seen_names) ==
    IF chs = <<>> THEN <<>>
    ELSE IF Get(Head(chs), "stream_url", "") \in seen_urls
    THEN DeduplicateByAddress(Tail(chs), seen_urls, seen_names)
    ELSE <<Head(chs)>> \o DeduplicateByAddress(Tail(chs),
                                               seen_urls \cup {Get(Head(chs), "stream_url", "")},
                                               seen_names)

\* a pass in which the records dropped add to the seen-sets too
RECURSIVE DeduplicateSeeingDropped(_, _, _)
DeduplicateSeeingDropped(chs, seen_urls, seen_names) ==
    IF chs = <<>> THEN <<>>
    ELSE (IF Get(Head(chs), "stream_url", "") \in seen_urls \/ NameKey(Head(chs)) \in seen_names
          THEN <<>> ELSE <<Head(chs)>>)
         \o DeduplicateSeeingDropped(Tail(chs),
                                     seen_urls \cup {Get(Head(chs), "stream_url", "")},
                                     seen_names \cup {NameKey(Head(chs))})

\* the loop of deduplicate_channels from some position on
RECURSIVE DeduplicateFrom(_, _, _)
DeduplicateFrom(chs, seen_urls, seen_names) ==
    IF chs = <<>> THEN <<>>
    ELSE IF Get(Head(chs), "stream_url", "") \in seen_urls \/ NameKey(Head(chs)) \in seen_names
    THEN DeduplicateFrom(Tail(chs), seen_urls, seen_names)
    ELSE <<Head(chs)>> \o DeduplicateFrom(Tail(chs),
                                          seen_urls \cup {Get(Head(chs), "stream_url", "")},
                                          seen_names \cup {NameKey(Head(chs))})

deduplicate_channels(chs) == DeduplicateFrom(chs, {}, {})

\* generate_m3u_content: the header line, then an #EXTINF line and an
\* address line per channel.  An #EXTINF line is kept as its parts: the
\* attributes written, in order, and the name after the comma.
\* the attributes with the group first
AttrOrderGroupFirst == <<"group_title", "tvg_id", "tvg_name", "tvg_logo", "tvg_epg">>

AttrOrder == <<"tvg_id", "tvg_name", "tvg_logo", "tvg_epg", "group_title">>

\* attr.replace('_', '-')
AttrName(attr) == replace(attr, "_", "-")

HeaderLine == [kind |-> "header", attrs |-> <<>>, text |-> "#EXTM3U"]

ExtinfLine(channel) ==
    [ kind  |-> "extinf",
      attrs |-> SelectSeq([j \in 1..Len(AttrOrder) |->
                              <<AttrName(AttrOrder[j]), Get(channel, AttrOrder[j], "")>>],
                          LAMBDA pair : pair[2] # ""),
      text  |-> Get(channel, "name", "Unknown") ]

UrlLine(channel) == [kind |-> "url", attrs |-> <<>>, text |-> Get(channel, "stream_url", "")]

RECURSIVE ChannelLines(_)
ChannelLines(chs) ==
    IF chs = <<>> THEN <<>>
    ELSE <<ExtinfLine(Head(chs)), UrlLine(Head(chs))>> \o ChannelLines(Tail(chs))

generate_m3u_content(chs) == <<HeaderLine>> \o ChannelLines(chs)

\* the string of a line: ' '.join(extinf_parts) + f',{channel_name}' for an
\* #EXTINF line, with f'{attr_name}="{value}"' for each of its attributes
LineText(line) ==
    IF line.kind = "extinf"
    THEN join(<<"#EXTINF:-1">> \o [j \in 1..Len(line.attrs) |->
                                      line.attrs[j][1] \o "=\"" \o line.attrs[j][2] \o "\""],
              " ") \o "," \o line.text
    ELSE line.text

\* the string generate_m3u_content returns: '\n'.join(lines)
ContentText(lines) == join([j \in 1..Len(lines) |-> LineText(lines[j])], "\n")

\* generate_unified_playlist up to the call of open(): the query, the
\* dicts, the deduplication and the rendering of the content
Selected(caller) ==
    LET channel_data ==
           deduplicate_channels([j \in 1..Len(SelectedChannels) |->
                                    ChannelDict(SelectedChannels[j])])
    IN  [ pc           |-> "selected",
          caller       |-> caller,
          selected     |-> SelectedChannels,
          channel_data |-> channel_data,
          content      |-> generate_m3u_content(channel_data),
          previous     |-> NoFile ]

\* open(file_path, 'w') creates or truncates the file
SaveOpen ==
    /\ generate.pc = "selected"
    /\ playlist_file' = [exists |-> TRUE, lines |-> <<>>]
    /\ generate' = [generate EXCEPT !.pc = "open", !.previous = playlist_file]
    /\ UNCHANGED <<channels, playlists, settings, validation_logs, validation_results,
                   run, validate_all, served, codec, probe, scheduler, deleted>>

\* the buffer of f.write is flushed before the content is complete
SaveFlush(n) ==
    /\ generate.pc = "open"
    /\ n > Len(playlist_file.lines)
    /\ n < Len(generate.content)
    /\ playlist_file' = [playlist_file EXCEPT !.lines = SubSeq(generate.content, 1, n)]
    /\ UNCHANGED <<channels, playlists, settings, validation_logs, validation_results,
                   run, validate_all, generate, served, codec, probe, scheduler, deleted>>

\* the `with` block is left: everything is written, save_m3u_file returns
SaveClose ==
    /\ generate.pc = "open"
    /\ playlist_file' = [playlist_file EXCEPT !.lines = generate.content]
    /\ generate' = [generate EXCEPT !.pc = "returned"]
    /\ UNCHANGED <<channels, playlists, settings, validation_logs, validation_results,
                   run, validate_all, served, codec, probe, scheduler, deleted>>

\* the write raises (OSError): save_m3u_file logs and re-raises, the file
\* keeps what had been flushed
SaveFails ==
    /\ generate.pc = "open"
    /\ generate' = [generate EXCEPT !.pc = "raised"]
    /\ UNCHANGED <<channels, playlists, settings, validation_logs, validation_results,
                   run, validate_all, playlist_file, served, codec, probe, scheduler, deleted>>

\* POST /generate-playlist: the call runs as a background task of the API
\* event loop and contains no await, so no request handler runs inside it
RouteGenerate ==
    /\ validate_all.pc = "idle"
    /\ generate.pc \in {"idle", "returned", "raised"}
    /\ playlist_file' = [exists |-> TRUE, lines |-> Selected("route").content]
    /\ generate' = [Selected("route") EXCEPT !.pc = "returned", !.previous = playlist_file]
    /\ UNCHANGED <<channels, playlists, settings, validation_logs, validation_results,
                   run, validate_all, served, codec, probe, scheduler, deleted>>

\* GET /playlist.m3u (main.py): the content of the file, or 404
get_playlist ==
    /\ served' = IF playlist_file.exists
                 THEN [status |-> 200, lines |-> playlist_file.lines]
                 ELSE [status |-> 404, lines |-> <<>>]
    /\ UNCHANGED <<channels, playlists, settings, validation_logs, validation_results,
                   run, validate_all, generate, playlist_file, codec, probe, scheduler, deleted>>

(***************************************************************************)
(* validate_all_playlists (lines 278-312), called by the scheduler's       *)
(* thread; its validate_playlist calls are the runs of process r           *)
(***************************************************************************)
\* db.query(Playlist).filter(Playlist.is_active == True).all(), in id order
ActivePlaylists ==
    SelectSeq([p \in 1..NumPlaylists |-> p],
              LAMBDA p : p \in DOMAIN playlists /\ playlists[p].is_active)

\* lines 288-290: no active playlist, returns [] at once
ValidateAllNoPlaylists(r) ==
    /\ validate_all.pc = "idle"
    /\ \A q \in Procs : Ended(q)
    /\ generate.pc \in {"idle", "returned", "raised"}
    /\ ActivePlaylists = <<>>
    /\ validate_all' = [IdleAll EXCEPT !.pc = "returned"]
    /\ run' = [run EXCEPT ![r] = IdleRun]
    /\ UNCHANGED <<channels, playlists, settings, validation_logs, validation_results,
                   generate, playlist_file, served, codec, probe, scheduler, deleted>>

\* lines 286-292: the active playlists are loaded, the loop starts
ValidateAllStart(r) ==
    /\ validate_all.pc = "idle"
    /\ \A q \in Procs : Ended(q)
    /\ generate.pc \in {"idle", "returned", "raised"}
    /\ ActivePlaylists # <<>>
    /\ validate_all' = [IdleAll EXCEPT !.pc = "loop", !.playlists = ActivePlaylists, !.k = 1]
    /\ run' = [run EXCEPT ![r] = IdleRun]
    /\ UNCHANGED <<channels, playlists, settings, validation_logs, validation_results,
                   generate, playlist_file, served, codec, probe, scheduler, deleted>>

\* line 296 is reached for playlists[k]: validate_playlist is not yet called
AtPlaylist(r) ==
    /\ validate_all.pc = "loop"
    /\ run[r].pc = "idle"

CurrentPlaylist == validate_all.playlists[validate_all.k]

\* `await self.validate_playlist(playlist.id)`: the call starts
AllRunLoadFails(r) == AtPlaylist(r) /\ StartRunLoadFails(r, CurrentPlaylist)
AllRunEmpty(r) == AtPlaylist(r) /\ StartRunEmpty(r, CurrentPlaylist)
AllRun(r) == AtPlaylist(r) /\ StartRun(r, CurrentPlaylist)

\* a loop without the try of lines 295-303: the error of a run leaves the loop
AllCollectStopsAtError(r) ==
    /\ validate_all.pc = "loop"
    /\ run[r].pc \in {"done", "raised"}
    /\ validate_all' =
          IF run[r].pc = "raised"
          THEN [validate_all EXCEPT !.pc = "raised"]
          ELSE [validate_all EXCEPT
                   !.results = Append(@, [playlist_id |-> run[r].playlist_id,
                                          error |-> FALSE]),
                   !.k = @ + 1,
                   !.pc = IF validate_all.k < Len(validate_all.playlists)
                          THEN "loop" ELSE "generate"]
    /\ run' = [run EXCEPT ![r] = IdleRun]
    /\ UNCHANGED <<channels, playlists, settings, validation_logs, validation_results,
                   generate, playlist_file, served, codec, probe, scheduler, deleted>>

\* lines 297-303: the call returned (its result is appended) or raised (an
\* entry with the error is appended); then the next playlist, or line 306
AllCollect(r) ==
    /\ validate_all.pc = "loop"
    /\ run[r].pc \in {"done", "raised"}
    /\ validate_all' =
          [validate_all EXCEPT
              !.results = Append(@, [playlist_id |-> run[r].playlist_id,
                                     error |-> run[r].pc = "raised"]),
              !.k = @ + 1,
              !.pc = IF validate_all.k < Len(validate_all.playlists)
                     THEN "loop" ELSE "generate"]
    /\ run' = [run EXCEPT ![r] = IdleRun]
    /\ UNCHANGED <<channels, playlists, settings, validation_logs, validation_results,
                   generate, playlist_file, served, codec, probe, scheduler, deleted>>

\* a generation that also stamps the playlists it read
AllGenerateStampsPlaylists ==
    /\ validate_all.pc = "generate"
    /\ generate' = Selected("validate_all")
    /\ validate_all' = [validate_all EXCEPT !.pc = "generating", !.generated = @ + 1]
    /\ playlists' = [p \in DOMAIN playlists |->
                       [playlists[p] EXCEPT !.last_validated = Some(Len(validation_logs))]]
    /\ UNCHANGED <<channels, settings, validation_logs, validation_results,
                   run, playlist_file, served, codec, probe, scheduler, deleted>>

\* line 306: generate_unified_playlist is called
AllGenerate ==
    /\ validate_all.pc = "generate"
    /\ generate' = Selected("validate_all")
    /\ validate_all' = [validate_all EXCEPT !.pc = "generating", !.generated = @ + 1]
    /\ UNCHANGED <<channels, playlists, settings, validation_logs, validation_results,
                   run, playlist_file, served, codec, probe, scheduler, deleted>>

\* lines 308-309: generate_unified_playlist returned, results are returned
AllReturn ==
    /\ validate_all.pc = "generating"
    /\ generate.pc = "returned"
    /\ validate_all' = [validate_all EXCEPT !.pc = "returned"]
    /\ UNCHANGED <<channels, playlists, settings, validation_logs, validation_results,
                   run, generate, playlist_file, served, codec, probe, scheduler, deleted>>

\* generate_unified_playlist raised: nothing catches it in lines 283-312
AllGenerateRaises ==
    /\ validate_all.pc = "generating"
    /\ generate.pc = "raised"
    /\ validate_all' = [validate_all EXCEPT !.pc = "raised"]
    /\ UNCHANGED <<channels, playlists, settings, validation_logs, validation_results,
                   run, generate, playlist_file, served, codec, probe, scheduler, deleted>>

\* the steps of a validate_playlist call after its start.  No request
\* handler of this specification writes a row, so the finalization loop is
\* taken as one step on the scheduler's thread too.
RunStep(r) ==
    \/ CreateSemaphore(r)
    \/ CreateSemaphoreRaises(r)
    \/ \E c \in Channels : TaskAcquire(r, c)
    \/ \E c \in Channels : TaskRaises(r, c)
    \/ \E c \in Channels, o \in NetworkOutcomes \cup {EmptyUrlOutcome} : TaskPrimary(r, c, o)
    \/ \E c \in Channels, o \in NetworkOutcomes \cup {EmptyUrlOutcome} : TaskAlt(r, c, o)
    \/ GatherBatch(r)
    \/ GatherBatchCommitFails(r)
    \/ FinalizeRun(r)
    \/ \E k \in 1..NumChannels : FinalizeRunRaises(r, k)
    \/ FinalizeRunCommitFails(r)
    \/ Crash(r)

\* POST /validate with playlist_ids (trigger_validation checks that the
\* playlist exists, not that it is active): one call
BeforeAll(r) ==
    /\ validate_all.pc = "idle"
    /\ run[r].pc = "idle"
    /\ validation_logs = <<>>

TriggerNotFound(r, p) == BeforeAll(r) /\ StartRunNotFound(r, p)
TriggerLoadFails(r, p) == BeforeAll(r) /\ StartRunLoadFails(r, p)
TriggerEmpty(r, p) == BeforeAll(r) /\ StartRunEmpty(r, p)
TriggerRun(r, p) == BeforeAll(r) /\ StartRun(r, p)

\* The rows of the two-playlist specification: the channels of Init spread
\* over the playlists.  No code under src/ writes Playlist.is_active (the
\* column defaults to True); the queries of lines 286 and 326 filter on it,
\* so rows deactivated in the database are part of the start states.
InitAll ==
    /\ InitConsolidation
    /\ settings \in [ validation_retry_attempts : RetryValues,
                      validation_concurrent_limit : LimitValues ]
    /\ \E last_active \in BOOLEAN :
          channels = [c \in Channels |->
                         [InitialChannel(c, settings.validation_retry_attempts)
                             EXCEPT !.playlist_id = OwnerOf(c),
                                    !.is_active = IF c = NumChannels THEN last_active ELSE @]]
    /\ playlists \in [1..NumPlaylists -> {[is_active |-> b, last_validated |-> None] :
                                             b \in BOOLEAN}]
    /\ validation_logs = <<>>
    /\ validation_results = <<>>
    /\ run = [r \in Procs |-> IdleRun]

\* one POST /validate call for one playlist id, on the API's event loop
NextTrigger ==
    \/ \E p \in 0..NumPlaylists : TriggerNotFound("api", p)
    \/ \E p \in 0..NumPlaylists : TriggerLoadFails("api", p)
    \/ \E p \in 0..NumPlaylists : TriggerEmpty("api", p)
    \/ \E p \in 0..NumPlaylists : TriggerRun("api", p)
    \/ RunStep("api")

SpecTrigger == InitAll /\ [][NextTrigger]_vars

\* GET /playlist.m3u while the scheduler's thread consolidates and after it
\* (a request before that reads what RouteGenerate left, or gets 404)
Reader ==
    /\ validate_all.pc \in {"generating", "returned", "raised"}
    /\ get_playlist

\* the scheduler's validate_all_playlists call, the generation route before
\* it and the readers of /playlist.m3u
NextAll ==
    \/ RouteGenerate
    \/ ValidateAllNoPlaylists("scheduler")
    \/ ValidateAllStart("scheduler")
    \/ AllRunLoadFails("scheduler")
    \/ AllRunEmpty("scheduler")
    \/ AllRun("scheduler")
    \/ RunStep("scheduler")
    \/ AllCollect("scheduler")
    \/ AllGenerate
    \/ SaveOpen
    \/ \E n \in 0..(2 * NumChannels) : SaveFlush(n)
    \/ SaveClose
    \/ SaveFails
    \/ AllReturn
    \/ AllGenerateRaises
    \/ Reader

SpecAll == InitAll /\ [][NextAll]_vars

(***************************************************************************)
(* M3UParser: parse_m3u_content, _parse_extinf_line and                    *)
(* _extract_name_from_url (m3u_parser.py 24-109)                            *)
(***************************************************************************)
\* \w of the regular expressions
WordChars == CharsOf(UpperLetters \o LowerLetters \o Digits \o "_")

Quotes == {"\"", "'"}

NoMatch == [found |-> FALSE, groups |-> <<"", "", "", "">>, end |-> 0]

\* the first position at or after i whose character is neither \w nor '-'
RECURSIVE RunEnd(_, _)
RunEnd(line, i) ==
    IF i > Len(line) THEN i
    ELSE IF CharAt(line, i) \in WordChars \cup {"-"} THEN RunEnd(line, i + 1)
    ELSE i

\* the match of attr_pattern that starts at position i of line, if any:
\*   (\w+(?:-\w+)*)=["'](.*?)["']  |  (\w+(?:-\w+)*)=(\S+)
\* The key is followed by '=', which is neither \w nor '-', so it is the
\* whole run of such characters from i and must have the shape
\* \w+(?:-\w+)*; the first alternative takes the value up to the next quote
\* of either kind, the second one, tried when the first fails, the run of
\* non-blank characters after '='.
AttrMatch(line, i) ==
    LET j == RunEnd(line, i)
        key == SubSeq(line, i, j - 1)
        shaped == /\ j > i
                  /\ j <= Len(line)
                  /\ CharAt(line, j) = "="
                  /\ CharAt(line, i) \in WordChars
                  /\ CharAt(line, j - 1) \in WordChars
                  /\ \A k \in i..(j - 2) : ~(CharAt(line, k) = "-" /\ CharAt(line, k + 1) = "-")
        closing == find(line, Quotes, j + 2)
        blank == find(line, Whitespace, j + 1)
        stop == IF blank = 0 THEN Len(line) + 1 ELSE blank
    IN  IF ~shaped \/ j + 1 > Len(line) THEN NoMatch
        ELSE IF CharAt(line, j + 1) \in Quotes /\ closing # 0
        THEN [found |-> TRUE, end |-> closing + 1,
              groups |-> <<key, SubSeq(line, j + 2, closing - 1), "", "">>]
        ELSE IF CharAt(line, j + 1) \notin Whitespace
        THEN [found |-> TRUE, end |-> stop,
              groups |-> <<"", "", key, SubSeq(line, j + 1, stop - 1)>>]
        ELSE NoMatch

\* re.findall(attr_pattern, line) from position i on: the matches from left
\* to right, none overlapping
RECURSIVE findall(_, _)
findall(line, i) ==
    IF i > Len(line) THEN <<>>
    ELSE IF AttrMatch(line, i).found
    THEN <<AttrMatch(line, i).groups>> \o findall(line, AttrMatch(line, i).end)
    ELSE findall(line, i + 1)

\* lines 63-71: the dict _parse_extinf_line starts from
EmptyInfo ==
    [name |-> "", group_title |-> "", logo |-> "", tvg_id |-> "", tvg_name |-> "",
     tvg_logo |-> "", tvg_epg |-> ""]

\* lines 78-88: the loop over the matches
RECURSIVE ApplyMatches(_, _)
ApplyMatches(channel_info, matches) ==
    IF matches = <<>> THEN channel_info
    ELSE LET match == Head(matches)
             quoted == match[1] # "" /\ match[2] # ""
             bare == match[3] # "" /\ match[4] # ""
             key == replace(Lower(IF quoted THEN match[1] ELSE match[3]), "-", "_")
             value == IF quoted THEN match[2] ELSE match[4]
         IN  IF (quoted \/ bare) /\ key \in DOMAIN channel_info
             THEN ApplyMatches([channel_info EXCEPT ![key] = value], Tail(matches))
             ELSE ApplyMatches(channel_info, Tail(matches))

\* re.search(r',(.+)$', line): the leftmost comma that has at least one
\* character after it, and the rest of the line after that comma
NameMatch(line) ==
    LET comma == find(line, {","}, 1)
    IN  IF comma # 0 /\ comma < Len(line)
        THEN [found |-> TRUE, group |-> From(line, comma + 1)]
        ELSE [found |-> FALSE, group |-> ""]

_parse_extinf_line(line) ==
    LET channel_info == ApplyMatches(EmptyInfo, findall(line, 1))
    IN  IF NameMatch(line).found
        THEN [channel_info EXCEPT !.name = strip(NameMatch(line).group)]
        ELSE channel_info

\* the characters urlsplit removes from an address wherever they are
RECURSIVE RemoveUnsafe(_)
RemoveUnsafe(url) ==
    IF url = "" THEN ""
    ELSE (IF CharAt(url, 1) \in {"\t", "\r", "\n"} THEN "" ELSE CharAt(url, 1))
            \o RemoveUnsafe(From(url, 2))

\* urllib.parse.urlparse(given): the path, or the ValueError ("Invalid IPv6
\* URL") it raises when the network location holds one square bracket
\* without the other.  No address of the model holds both brackets.
SchemeChars == CharsOf(UpperLetters \o LowerLetters \o Digits \o "+-.")

uses_params == {"", "ftp", "http", "https", "rtsp", "mms", "sftp"}

_splitparams(url) ==
    LET slash == rfind(url, {"/"}, Len(url))
        semi == IF slash # 0 THEN find(url, {";"}, slash) ELSE find(url, {";"}, 1)
    IN  IF semi = 0 THEN url ELSE SubSeq(url, 1, semi - 1)

\* the text before the first of chars, the whole text when there is none
Before(s, chars) ==
    LET k == find(s, chars, 1)
    IN  IF k = 0 THEN s ELSE SubSeq(s, 1, k - 1)

\* urlsplit: the scheme in lower case and the text after its colon
SplitScheme(url) ==
    LET colon == find(url, {":"}, 1)
    IN  IF /\ colon > 1
           /\ CharAt(url, 1) \in CharsOf(UpperLetters \o LowerLetters)
           /\ \A k \in 1..(colon - 1) : CharAt(url, k) \in SchemeChars
        THEN [scheme |-> Lower(SubSeq(url, 1, colon - 1)), url |-> From(url, colon + 1)]
        ELSE [scheme |-> "", url |-> url]

\* urlsplit: the network location after "//" and the text after it
_splitnetloc(url) ==
    LET delim == find(url, {"/", "?", "#"}, 3)
    IN  IF ~startswith(url, "//") THEN [netloc |-> "", url |-> url]
        ELSE IF delim = 0 THEN [netloc |-> From(url, 3), url |-> ""]
        ELSE [netloc |-> SubSeq(url, 3, delim - 1), url |-> From(url, delim)]

\* urlparse: the parameters after ";" leave the path
PathOf(scheme, url) ==
    IF scheme \in uses_params /\ ";" \in CharsOf(url) THEN _splitparams(url) ELSE url

\* urlsplit after the network location: the bracket check, then the fragment
\* and the query leave the path
SplitRest(scheme, located) ==
    [raised |-> ("[" \in CharsOf(located.netloc)) # ("]" \in CharsOf(located.netloc)),
     path |-> PathOf(scheme, Before(Before(located.url, {"#"}), {"?"}))]

SplitLocation(schemed) == SplitRest(schemed.scheme, _splitnetloc(schemed.url))

urlparse(given) == SplitLocation(SplitScheme(RemoveUnsafe(lstrip(given))))

\* strs[-1]
Last(strs) == strs[Len(strs)]

\* lines 100 and 105: path.split('/')[-1], then name.split('.')[0]
LastSegmentName(path) == Head(split(Last(split(path, "/")), "."))

\* lines 99-109 after urlparse
NameOf(parsed, name) ==
    IF parsed.raised THEN [raised |-> TRUE, name |-> ""]
    ELSE IF parsed.path # "" /\ name # "" THEN [raised |-> FALSE, name |-> name]
    ELSE [raised |-> FALSE, name |-> "Unknown Channel"]

NameOfPath(parsed) == NameOf(parsed, LastSegmentName(parsed.path))

\* lines 97-109: [raised, name]
_extract_name_from_url(url) == NameOfPath(urlparse(url))

\* current_info = {}
NoInfo == <<>>

\* lines 41-45: the record of a metadata line and the address after it
Entry(current_info, line) ==
    [key \in DOMAIN current_info \cup {"stream_url"} |->
        IF key = "stream_url" THEN line ELSE current_info[key]]

\* lines 48-54: the record of an address without metadata
BareEntry(line, named) ==
    [name |-> named.name, stream_url |-> line, group_title |-> "Unknown"]

\* the loop of lines 31-54 from some line on: [raised, channels]
RECURSIVE ParseLines(_, _, _)
RECURSIVE ParseLine(_, _, _, _)
RECURSIVE ParseBare(_, _, _, _)
ParseLines(lines, current_info, chs) ==
    IF lines = <<>> THEN [raised |-> FALSE, channels |-> chs]
    ELSE ParseLine(strip(Head(lines)), Tail(lines), current_info, chs)

\* a loop that keeps current_info after it made a record of it
ParseLineKeepingInfo(line, rest, current_info, chs) ==
    IF line = "" \/ (startswith(line, "#") /\ ~startswith(line, "#EXTINF"))
    THEN ParseLines(rest, current_info, chs)
    ELSE IF startswith(line, "#EXTINF")
    THEN ParseLines(rest, _parse_extinf_line(line), chs)
    ELSE IF current_info # NoInfo
    THEN ParseLines(rest, current_info, Append(chs, Entry(current_info, line)))
    ELSE ParseBare(line, _extract_name_from_url(line), rest, chs)

\* lines 32-54 for one line, already stripped
ParseLine(line, rest, current_info, chs) ==
    IF line = "" \/ (startswith(line, "#") /\ ~startswith(line, "#EXTINF"))
    THEN ParseLines(rest, current_info, chs)
    ELSE IF startswith(line, "#EXTINF")
    THEN ParseLines(rest, _parse_extinf_line(line), chs)
    ELSE IF current_info # NoInfo
    THEN ParseLines(rest, NoInfo, Append(chs, Entry(current_info, line)))
    ELSE ParseBare(line, _extract_name_from_url(line), rest, chs)

\* lines 48-54: a ValueError of urlparse leaves parse_m3u_content
ParseBare(line, named, rest, chs) ==
    IF named.raised THEN [raised |-> TRUE, channels |-> <<>>]
    ELSE ParseLines(rest, NoInfo, Append(chs, BareEntry(line, named)))

\* parse_m3u_content(content): [raised, channels]; raised tells that the
\* call raised instead of returning
parse_m3u_content(content) == ParseLines(split(strip(content), "\n"), NoInfo, <<>>)

(***************************************************************************)
(* The functions of M3UParser applied to bounded inputs                    *)
(***************************************************************************)
\* Bound: the lines of a playlist text
MaxLines == 3
\* Bound: the records of a list given to deduplicate_channels
MaxRecords == 3

\* the lines a playlist text of the model is made of: the header, metadata
\* lines (attributes quoted or not, in upper or lower case, with keys the
\* parser knows or not, with a quote inside a value, with one comma, several
\* or none), a comment, an empty line, and addresses (with blank characters
\* around, with several dots, without a last segment, with an unmatched
\* bracket)
Lines ==
    { "#EXTM3U",
      "#EXTINF:-1 tvg-id=\"c1\" group-title=\"News\",CNN",
      "http://x/cnn",
      "#EXTINF:-1 tvg-name=\"A, B\",Channel",
      "#EXTINF:-1 TVG-ID=\"u\" logo=\"l\" foo=\"z\",X",
      "#EXTINF:-1 tvg-epg=\"e\" tvg-logo=\"l\" Tvg_Name=\"n\" tvg-id=i group-title='g',All",
      "#EXTINF:-1 name=\"N\"",
      "#EXTINF:-1 tvg-id=a'b ,Q",
      "# comment",
      "",
      " http://x/live/a.b.m3u8\r",
      "http://x/live/",
      "http://[x/a.ts" }

Contents == {join(ls, "\n") : ls \in UNION {[1..n -> Lines] : n \in 0..MaxLines}}

\* the records a list given to deduplicate_channels is made of: names that
\* differ by case or not, two groups, two addresses, a record without
\* group_title, and two records whose names and groups differ but whose
\* name:group strings are the same
GivenRecords ==
    [name : {"CNN", "cnn", "BBC"}, group_title : {"News", "UK"},
     stream_url : {"http://a", "http://b"}]
    \cup {[name |-> "CNN", stream_url |-> "http://c"],
          [name |-> "X:Y", group_title |-> "Z", stream_url |-> "http://d"],
          [name |-> "X", group_title |-> "Y:Z", stream_url |-> "http://e"]}

GivenLists == UNION {[1..n -> GivenRecords] : n \in 0..MaxRecords}

\* the tables and the calls that the codec does not touch
InitCodecRest ==
    /\ validate_all = IdleAll
    /\ generate = IdleGenerate
    /\ playlist_file = NoFile
    /\ served = NotServed
    /\ deleted = {}
    /\ settings = [validation_retry_attempts |-> Len(AltUrls),
                   validation_concurrent_limit |-> Len(AltUrls)]
    /\ channels = [c \in Channels |->
                      InitialChannel(c, settings.validation_retry_attempts)]
    /\ playlists = [p \in Playlists |-> [is_active |-> TRUE, last_validated |-> None]]
    /\ validation_logs = <<>>
    /\ validation_results = <<>>
    /\ run = [r \in Procs |-> IdleRun]

CodecOnly ==
    UNCHANGED <<channels, playlists, settings, validation_logs, validation_results, run,
                validate_all, generate, playlist_file, served, probe, scheduler, deleted>>

\* a text is given to parse_m3u_content
InitParse ==
    /\ InitCodecRest
    /\ probe = IdleProbe
    /\ scheduler = IdleScheduler
    /\ \E content \in Contents :
          codec = [IdleCodec EXCEPT !.pc = "content", !.content = content]

\* parse_m3u_content(content) returns
Parse ==
    /\ codec.pc = "content"
    /\ ~parse_m3u_content(codec.content).raised
    /\ codec' = [codec EXCEPT !.pc = "parsed",
                              !.channels = parse_m3u_content(codec.content).channels]
    /\ CodecOnly

\* parse_m3u_content(content) raises the ValueError of urlparse
ParseRaises ==
    /\ codec.pc = "content"
    /\ parse_m3u_content(codec.content).raised
    /\ codec' = [codec EXCEPT !.pc = "raised", !.raised = TRUE]
    /\ CodecOnly

\* generate_m3u_content(channels) on the records parsed
Generate ==
    /\ codec.pc = "parsed"
    /\ codec' = [codec EXCEPT !.pc = "generated",
                              !.text = ContentText(generate_m3u_content(codec.channels))]
    /\ CodecOnly

\* parse_m3u_content on the text generated
ParseAgain ==
    /\ codec.pc = "generated"
    /\ ~parse_m3u_content(codec.text).raised
    /\ codec' = [codec EXCEPT !.pc = "again",
                              !.again = parse_m3u_content(codec.text).channels]
    /\ CodecOnly

NextParse ==
    \/ Parse
    \/ ParseRaises
    \/ Generate
    \/ ParseAgain

SpecParse == InitParse /\ [][NextParse]_vars

\* a list of records is given to deduplicate_channels
InitRecords ==
    /\ InitCodecRest
    /\ probe = IdleProbe
    /\ scheduler = IdleScheduler
    /\ \E given \in GivenLists :
          codec = [IdleCodec EXCEPT !.pc = "given", !.channels = given]

\* deduplicate_channels(channels) returns
Deduplicate ==
    /\ codec.pc = "given"
    /\ codec' = [codec EXCEPT !.pc = "deduplicated",
                              !.unique = deduplicate_channels(codec.channels)]
    /\ CodecOnly

NextRecords == Deduplicate

SpecRecords == InitRecords /\ [][NextRecords]_vars

(***************************************************************************)
(* validate_stream_url: the HEAD request and the ranged GET                *)
(***************************************************************************)
\* Bound: the time one request may take, in abstract units
MaxElapsed == 2

\* the addresses given to validate_stream_url: empty, blank, and addresses
\* of channels
Addresses == {"", "  \t", "http://primary", AdminUrl, AltUrls[1]}

\* the status codes a response may carry
Statuses == {200, 204, 206, 301, 302, 304, 404, 500}

\* the exceptions a request may raise: a transport error of aiohttp, the
\* asyncio.TimeoutError of ClientTimeout(total=timeout), whose str() is
\* empty, and an exception of another class
ClientError == [class |-> "ClientError", text |-> "Cannot connect to host"]
TimeoutError == [class |-> "TimeoutError", text |-> ""]
OtherError == [class |-> "Exception", text |-> "unexpected"]

\* a variant that takes a blank address for an address
IsEmpty(url) == url = ""

\* line 34: not url or not url.strip()
IsBlank(url) == url = "" \/ strip(url) = ""

\* a variant that accepts partial content for HEAD too
HeadAcceptedWithPartial == {200, 206, 302, 301}

\* line 51
HeadAccepted == {200, 302, 301}

\* line 70
GetAccepted == {200, 206, 302, 301}

HeadRequest == [method |-> "HEAD", range |-> ""]
\* lines 62-67: the Range header asks for the first 1024 bytes
GetRequest == [method |-> "GET", range |-> "bytes=0-1023"]

\* lines 49-54 and 68-73: the tuple returned for a response
ResponseOutcome(status, accepted, response_time) ==
    IF status \in accepted THEN Outcome(TRUE, response_time, None, Some(status))
    ELSE Outcome(FALSE, response_time, Some("HTTP " \o ToString(status)), Some(status))

\* lines 75-77: except Exception around the GET, whatever was raised
GetFailureOutcome(e, response_time) == Outcome(FALSE, response_time, Some(e.text), None)

\* lines 79-84: the handlers around the session, reached from the HEAD
HeadFailureOutcome(e, response_time) ==
    IF e.class = "TimeoutError" THEN Outcome(FALSE, response_time, Some("Request timeout"), None)
    ELSE Outcome(FALSE, response_time, Some(e.text), None)

ProbeOnly ==
    UNCHANGED <<channels, playlists, settings, validation_logs, validation_results, run,
                validate_all, generate, playlist_file, served, codec, scheduler, deleted>>

Returned(outcome) == [probe EXCEPT !.pc = "returned", !.outcome = outcome]

\* lines 34-35: an empty or blank address returns at once
ProbeBlank ==
    /\ probe.pc = "called"
    /\ IsBlank(probe.url)
    /\ probe' = Returned(EmptyUrlOutcome)
    /\ ProbeOnly

\* lines 37-48: start_time is taken, the session is made, HEAD is issued
ProbeHead ==
    /\ probe.pc = "called"
    /\ ~IsBlank(probe.url)
    /\ probe' = [probe EXCEPT !.pc = "head", !.requests = <<HeadRequest>>]
    /\ ProbeOnly

\* lines 48-54: HEAD is answered
HeadResponds(status, d) ==
    /\ probe.pc = "head"
    /\ probe' = [Returned(ResponseOutcome(status, HeadAccepted, probe.elapsed + d))
                    EXCEPT !.elapsed = @ + d, !.statuses = Append(@, status)]
    /\ ProbeOnly

\* lines 56-58: HEAD raises aiohttp.ClientError; lines 60-67: GET is issued
HeadFallsBack(d) ==
    /\ probe.pc = "head"
    /\ probe' = [probe EXCEPT !.pc = "get", !.elapsed = @ + d,
                              !.failures = Append(@, ClientError),
                              !.requests = Append(@, GetRequest)]
    /\ ProbeOnly

\* HEAD raises something else: lines 79-84
HeadRaises(e, d) ==
    /\ probe.pc = "head"
    /\ e \in {TimeoutError, OtherError}
    /\ probe' = [Returned(HeadFailureOutcome(e, probe.elapsed + d))
                    EXCEPT !.elapsed = @ + d, !.failures = Append(@, e)]
    /\ ProbeOnly

\* lines 67-73: GET is answered
GetResponds(status, d) ==
    /\ probe.pc = "get"
    /\ probe' = [Returned(ResponseOutcome(status, GetAccepted, probe.elapsed + d))
                    EXCEPT !.elapsed = @ + d, !.statuses = Append(@, status)]
    /\ ProbeOnly

\* lines 75-77: GET raises
GetRaises(e, d) ==
    /\ probe.pc = "get"
    /\ e \in {ClientError, TimeoutError, OtherError}
    /\ probe' = [Returned(GetFailureOutcome(e, probe.elapsed + d))
                    EXCEPT !.elapsed = @ + d, !.failures = Append(@, e)]
    /\ ProbeOnly

\* validate_stream_url is called with an address
InitProber ==
    /\ InitCodecRest
    /\ codec = IdleCodec
    /\ scheduler = IdleScheduler
    /\ \E url \in Addresses : probe = [IdleProbe EXCEPT !.pc = "called", !.url = url]

NextProber ==
    \/ ProbeBlank
    \/ ProbeHead
    \/ \E status \in Statuses, d \in 1..MaxElapsed : HeadResponds(status, d)
    \/ \E d \in 1..MaxElapsed : HeadFallsBack(d)
    \/ \E e \in {TimeoutError, OtherError}, d \in 1..MaxElapsed : HeadRaises(e, d)
    \/ \E status \in Statuses, d \in 1..MaxElapsed : GetResponds(status, d)
    \/ \E e \in {ClientError, TimeoutError, OtherError}, d \in 1..MaxElapsed : GetRaises(e, d)

SpecProber == InitProber /\ [][NextProber]_vars

(***************************************************************************)
(* One run on a live event loop.  asyncio runs every task that is ready,   *)
(* and every probe is awaited under a ClientTimeout, so a step of the run  *)
(* that can be taken is eventually taken.                                  *)
(***************************************************************************)
\* the steps of a run none of whose database calls raises
UndisturbedRun(r) ==
    \/ \E p \in PlaylistIds : StartRunNotFound(r, p)
    \/ \E p \in PlaylistIds : StartRunEmpty(r, p)
    \/ \E p \in PlaylistIds : StartRunBounded(r, p)
    \/ CreateSemaphore(r)
    \/ CreateSemaphoreRaises(r)
    \/ \E c \in Channels : TaskAcquire(r, c)
    \/ \E c \in Channels, o \in NetworkOutcomes \cup {EmptyUrlOutcome} : TaskPrimary(r, c, o)
    \/ \E c \in Channels, o \in NetworkOutcomes \cup {EmptyUrlOutcome} : TaskAlt(r, c, o)
    \/ GatherBatch(r)
    \/ FinalizeRun(r)

\* a run of the API with DELETE /channels/{id} requests served meanwhile
NextRemoval ==
    \/ ApiRun("api")
    \/ \E c \in Channels : delete_channel(c)

SpecRemoval == Init /\ [][NextRemoval]_vars

(***************************************************************************)
(* Two calls of validate_playlist over the same playlist: one started by   *)
(* POST /validate on the API event loop, one on a thread of the scheduler  *)
(* (_run_validation, scheduler.py 80-105).  Nothing keeps the second from  *)
(* starting while the first is in flight; each has its own session.        *)
(***************************************************************************)
\* the call of process r, made once
CallOnce(r) ==
    /\ run[r].pc = "idle"
    /\ StartRun(r, 1)

\* the outcomes tried for a probe: it works, or it times out
WorksOrTimesOut == {o \in NetworkOutcomes : o.status_code # Some(404)}

\* the steps of the call up to the end of its last batch
ProbeBatches(r) ==
    \/ CreateSemaphore(r)
    \/ CreateSemaphoreRaises(r)
    \/ \E c \in Channels : TaskAcquire(r, c)
    \/ \E c \in Channels, o \in WorksOrTimesOut : TaskPrimary(r, c, o)
    \/ \E c \in Channels, o \in WorksOrTimesOut : TaskAlt(r, c, o)
    \/ GatherBatch(r)

\* the finalization of the API's call is one step of its event loop; the
\* thread's is interleaved with it statement by statement
NextTwoRuns ==
    \/ CallOnce("api")
    \/ ProbeBatches("api")
    \/ FinalizeRun("api")
    \/ CallOnce("scheduler")
    \/ ProbeBatches("scheduler")
    \/ FinalizeResult("scheduler")
    \/ FinalCommit("scheduler")

SpecTwoRuns == Init /\ [][NextTwoRuns]_vars

NextUndisturbed == UndisturbedRun("api")

SpecUndisturbed == Init /\ [][NextUndisturbed]_vars /\ WF_vars(NextUndisturbed)

\* the steps of a run, those in which a database call raises included; the
\* process stays alive
LiveRun(r) ==
    \/ \E p \in PlaylistIds : StartRunNotFound(r, p)
    \/ \E p \in PlaylistIds : StartRunLoadFails(r, p)
    \/ \E p \in PlaylistIds : StartRunEmpty(r, p)
    \/ \E p \in PlaylistIds : StartRunBounded(r, p)
    \/ CreateSemaphore(r)
    \/ CreateSemaphoreRaises(r)
    \/ \E c \in Channels : TaskAcquire(r, c)
    \/ \E c \in Channels : TaskRaises(r, c)
    \/ \E c \in Channels, o \in NetworkOutcomes \cup {EmptyUrlOutcome} : TaskPrimary(r, c, o)
    \/ \E c \in Channels, o \in NetworkOutcomes \cup {EmptyUrlOutcome} : TaskAlt(r, c, o)
    \/ GatherBatch(r)
    \/ GatherBatchCommitFails(r)
    \/ FinalizeRun(r)
    \/ \E k \in 1..NumChannels : FinalizeRunRaises(r, k)
    \/ FinalizeRunCommitFails(r)

NextLive == LiveRun("api")

SpecLive == Init /\ [][NextLive]_vars /\ WF_vars(NextLive)

(***************************************************************************)
(* ValidationScheduler: start, stop and the loop thread _run_scheduler     *)
(* (scheduler.py 29-78).  start() and stop() are called one after the      *)
(* other by one caller; the loop threads run beside it.  thread[t] is      *)
(*   "unstarted"  not created yet                                          *)
(*   "check"      at the test of `while not self._stop_event.is_set()`      *)
(*   "job"        inside schedule.run_pending(), executing _run_validation *)
(*   "waiting"    inside self._stop_event.wait(timeout=60)                 *)
(*   "ended"      returned from _run_scheduler                             *)
(***************************************************************************)
SchedulerOnly ==
    UNCHANGED <<channels, playlists, settings, validation_logs, validation_results, run,
                validate_all, generate, playlist_file, served, codec, probe, deleted>>

is_alive(t) == t # 0 /\ scheduler.thread[t] \in {"check", "job", "waiting"}

\* start() when not running: the flag, the event cleared, one daily job
\* registered and a new thread started
start ==
    /\ scheduler.caller = "idle"
    /\ ~scheduler._running
    /\ \E t \in Threads :
          /\ scheduler.thread[t] = "unstarted"
          /\ \A u \in 1..(t - 1) : scheduler.thread[u] # "unstarted"
          /\ scheduler' = [scheduler EXCEPT !._running = TRUE,
                                            !._stop_event = FALSE,
                                            !.jobs = @ + 1,
                                            !._thread = t,
                                            !.thread[t] = "check",
                                            !.last = "start"]
    /\ SchedulerOnly

\* start() when running: logs a warning and returns
start_while_running ==
    /\ scheduler.caller = "idle"
    /\ scheduler._running
    /\ scheduler' = [scheduler EXCEPT !.last = "start while running"]
    /\ SchedulerOnly

\* stop() when not running: returns
stop_while_stopped ==
    /\ scheduler.caller = "idle"
    /\ ~scheduler._running
    /\ scheduler' = [scheduler EXCEPT !.last = "stop while stopped"]
    /\ SchedulerOnly

\* stop() when running, lines 53-57: the flag, the event set, then the join
\* of the thread if it is alive
stop_sets_event ==
    /\ scheduler.caller = "idle"
    /\ scheduler._running
    /\ scheduler' = [scheduler EXCEPT !._running = FALSE,
                                      !._stop_event = TRUE,
                                      !.caller = "joining"]
    /\ SchedulerOnly

\* lines 56-60: join(timeout=10) returns because the thread has ended (or
\* was not alive), or because the 10 seconds have passed; the latter is
\* taken to happen only while the thread executes the validation job, which
\* probes every channel of every playlist.  Then schedule.clear().
stop_clears ==
    /\ scheduler.caller = "joining"
    /\ ~is_alive(scheduler._thread) \/ scheduler.thread[scheduler._thread] = "job"
    /\ scheduler' = [scheduler EXCEPT !.jobs = 0, !.caller = "idle", !.last = "stop"]
    /\ SchedulerOnly

\* `while not self._stop_event.is_set()` finds the event set
loop_exits(t) ==
    /\ scheduler.thread[t] = "check"
    /\ scheduler._stop_event
    /\ scheduler' = [scheduler EXCEPT !.thread[t] = "ended"]
    /\ SchedulerOnly

\* schedule.run_pending(): a registered job that is due is executed by the
\* calling thread; otherwise the thread goes on to wait
run_pending(t, due) ==
    /\ scheduler.thread[t] = "check"
    /\ ~scheduler._stop_event
    /\ scheduler' = [scheduler EXCEPT
                        !.thread[t] = IF due /\ scheduler.jobs > 0 THEN "job" ELSE "waiting"]
    /\ SchedulerOnly

\* _run_validation returns (it catches every Exception)
job_returns(t) ==
    /\ scheduler.thread[t] = "job"
    /\ scheduler' = [scheduler EXCEPT !.thread[t] = "waiting"]
    /\ SchedulerOnly

\* self._stop_event.wait(timeout=60) returns: True when the event is set
\* (break), False after 60 seconds (next iteration)
wait_returns(t) ==
    /\ scheduler.thread[t] = "waiting"
    /\ scheduler' = [scheduler EXCEPT
                        !.thread[t] = IF scheduler._stop_event THEN "ended" ELSE "check"]
    /\ SchedulerOnly

_run_scheduler(t) ==
    \/ loop_exits(t)
    \/ \E due \in BOOLEAN : run_pending(t, due)
    \/ job_returns(t)
    \/ wait_returns(t)

InitScheduler ==
    /\ InitCodecRest
    /\ codec = IdleCodec
    /\ probe = IdleProbe
    /\ scheduler = IdleScheduler

NextScheduler ==
    \/ start
    \/ start_while_running
    \/ stop_while_stopped
    \/ stop_sets_event
    \/ stop_clears
    \/ \E t \in Threads : _run_scheduler(t)

SpecScheduler == InitScheduler /\ [][NextScheduler]_vars

(***************************************************************************)
(* Properties                                                              *)
(***************************************************************************)
\* the step in which run r finalizes: its loop has run and line 236 commits
Finalizes(r) == run[r].pc = "finalize" /\ run'[r].pc = "done"

\* C1: when a run finalizes, every channel whose recorded outcome is not
\* working has working=false and a failure_count one higher than before,
\* and is inactive if that failure_count reaches retry_attempts.
C1_FailureEscalates ==
    [][\A r \in Procs : Finalizes(r) =>
          \A j \in 1..Len(run[r].all_results) :
             LET result == run[r].all_results[j]
                 c == result.channel_id
             IN  ~result.is_working =>
                   /\ channels'[c].is_working = FALSE
                   /\ channels'[c].failure_count = channels[c].failure_count + 1
                   /\ (channels'[c].failure_count >= settings.validation_retry_attempts
                          => channels'[c].is_active = FALSE)]_vars

\* scenario D: retry_attempts=2, a channel with failure_count=1 failed again
C1_Witness ==
    \E r \in Procs, c \in Channels :
        /\ run[r].pc = "done"
        /\ run[r].pending[c].set
        /\ run[r].pending[c].old.failure_count = 1
        /\ run[r].pending[c].old.is_active
        /\ settings.validation_retry_attempts = 2
        /\ channels[c].failure_count = 2
        /\ ~channels[c].is_working
        /\ ~channels[c].is_active

\* a channel at or over the threshold is retired (and its row exists)
Retired(c) ==
    /\ c \in DOMAIN channels
    /\ channels[c].failure_count >= settings.validation_retry_attempts
          => ~channels[c].is_active

\* C2 as stated: in every reachable state, every channel whose failure_count
\* >= retry_attempts has active=false and still exists.
C2_RetiredAlways == \A c \in Channels : Retired(c)

\* C2 amended: the rows start retired, and every step keeps a channel
\* retired and existing, except an edit that sets its active=true and a
\* configuration update that lowers retry_attempts.
C2_RetiredUnlessReset ==
    /\ \A c \in Channels : Retired(c)
    /\ [][\A c \in Channels :
             ( /\ Retired(c)
               /\ ~(~channels[c].is_active /\ channels'[c].is_active /\ run' = run)
               /\ settings'.validation_retry_attempts >= settings.validation_retry_attempts )
             => /\ c \in DOMAIN channels'
                /\ channels'[c].failure_count >= settings'.validation_retry_attempts
                      => ~channels'[c].is_active]_vars

\* a run has just retired a channel that was active when its loop read it
C2_Witness ==
    \E r \in Procs, c \in Channels :
        /\ run[r].pc = "done"
        /\ run[r].pending[c].set
        /\ run[r].pending[c].old.is_active
        /\ channels[c].failure_count >= settings.validation_retry_attempts
        /\ ~channels[c].is_active

\* C3: no step of a run changes active from false to true (only an
\* administrative edit does), also for a channel deactivated while the run
\* that loaded it is in flight; and the run in which a failing channel
\* reaches the threshold leaves it inactive.
C3_NeverReactivatedByRun ==
    [][\A c \in Channels :
          /\ (~channels[c].is_active /\ channels'[c].is_active) => run' = run
          /\ \A r \in Procs : Finalizes(r) =>
                \A j \in 1..Len(run[r].all_results) :
                   ( /\ run[r].all_results[j].channel_id = c
                     /\ ~run[r].all_results[j].is_working
                     /\ channels[c].failure_count + 1 >= settings.validation_retry_attempts )
                   => ~channels'[c].is_active]_vars

\* a channel the run loaded as active was deactivated in flight, was probed
\* working, and is still inactive after the run finalized
C3_Witness ==
    \E r \in Procs, c \in Channels :
        /\ run[r].pc = "done"
        /\ \E j \in 1..Len(run[r].all_results) :
              run[r].all_results[j].channel_id = c /\ run[r].all_results[j].is_working
        /\ run[r].pending[c].set
        /\ ~run[r].pending[c].old.is_active
        /\ channels[c].check_count = run[r].pending[c].old.check_count + 1
        /\ ~channels[c].is_active

\* C4: when a run finalizes, every recorded outcome adds exactly 1 to its
\* channel's check_count and sets last_checked and response_time from the
\* outcome; a working outcome sets working=true and failure_count=0.
C4_StatusFromOutcome ==
    [][\A r \in Procs : Finalizes(r) =>
          \A j \in 1..Len(run[r].all_results) :
             LET result == run[r].all_results[j]
                 c == result.channel_id
             IN  /\ channels'[c].check_count = channels[c].check_count + 1
                 /\ channels'[c].last_checked = Some(result.checked_at)
                 /\ channels'[c].response_time = Some(result.response_time)
                 /\ result.is_working =>
                       /\ channels'[c].is_working = TRUE
                       /\ channels'[c].failure_count = 0]_vars

\* a channel with one earlier failure was probed working and is reset
C4_Witness ==
    \E r \in Procs, c \in Channels :
        /\ run[r].pc = "done"
        /\ run[r].pending[c].set
        /\ run[r].pending[c].old.failure_count = 1
        /\ ~run[r].pending[c].old.is_working
        /\ channels[c].is_working
        /\ channels[c].failure_count = 0
        /\ channels[c].check_count = 2
        /\ channels[c].last_checked = Some(run[r].log_id)

Gathers(r) == run[r].pc = "tasks" /\ run'[r].i = run[r].i + batch_size

\* the rows persisted for one run, in the order they were inserted
RowsOf(validation_log_id) ==
    SelectSeq(validation_results, LAMBDA row : row.validation_log_id = validation_log_id)

\* the decoded alternates of channel c, or none when the column is NULL or
\* its text cannot be decoded
AlternatesOf(c) ==
    IF channels[c].alternative_urls = None THEN <<>>
    ELSE JsonLoads(channels[c].alternative_urls[1]).value

\* the addresses a task may probe, in order: its primary, then the alternates
ProbeOrder(c, t) == <<t.url>> \o AlternatesOf(c)

\* a task that found a working alternate after its primary failed
Promoted(t) ==
    /\ t.st = "done"
    /\ Len(t.probed) >= 2
    /\ t.probed[Len(t.probed)][2].is_working

\* a task whose primary failed and that found no working alternate
NotPromoted(t) ==
    /\ t.st = "done"
    /\ \A k \in 1..Len(t.probed) : ~t.probed[k][2].is_working

\* C6: for a channel whose primary address fails and that has alternates,
\* the alternates are probed in listed order and probing stops at the first
\* success; the task returns that alternate's outcome (working, its response
\* time and status, no error), and when the batch is committed the channel's
\* stored address is that alternate and the run has exactly one row for the
\* channel, holding that outcome.
C6_FirstWorkingAlternatePromoted ==
    [][\A r \in Procs : \A c \in Channels :
          LET t == run'[r].task[c]
              t0 == run[r].task[c]
              last == t0.probed[Len(t0.probed)]
          IN  /\ t.st \in {"alt", "done"} =>
                    /\ Len(t.probed) <= Len(ProbeOrder(c, t))
                    /\ \A k \in 1..Len(t.probed) :
                          /\ t.probed[k][1] = ProbeOrder(c, t)[k]
                          /\ k < Len(t.probed) => ~t.probed[k][2].is_working
                    /\ t.st = "alt" => ~t.probed[Len(t.probed)][2].is_working
              /\ Promoted(t) =>
                    LET won == t.probed[Len(t.probed)]
                    IN  /\ t.promoted = Some(won[1])
                        /\ t.res.stream_url = won[1]
                        /\ t.res.is_working = TRUE
                        /\ t.res.response_time = won[2].response_time
                        /\ t.res.status_code = won[2].status_code
                        /\ t.res.error_message = None
              /\ (Gathers(r) /\ Promoted(t0)) =>
                    /\ channels'[c].stream_url = last[1]
                    /\ \E k \in 1..Len(validation_results') :
                          /\ validation_results'[k] =
                                [ validation_log_id |-> run[r].log_id,
                                  channel_id        |-> c,
                                  is_working        |-> TRUE,
                                  response_time     |-> last[2].response_time,
                                  status_code       |-> last[2].status_code,
                                  error_message     |-> None,
                                  checked_at        |-> t0.res.checked_at ]
                          /\ \A h \in 1..Len(validation_results') :
                                ( /\ validation_results'[h].validation_log_id = run[r].log_id
                                  /\ validation_results'[h].channel_id = c ) => h = k]_vars

\* the second alternate of a channel won after the primary and the first
\* alternate failed, and the batch has been committed with it
C6_Witness ==
    \E r \in Procs, c \in Channels :
        /\ run[r].pc \in {"tasks", "finalize"}
        /\ channels[c].stream_url = AltUrls[2]
        /\ \E k \in 1..Len(validation_results) :
              /\ validation_results[k].channel_id = c
              /\ validation_results[k].validation_log_id = run[r].log_id
              /\ validation_results[k].is_working
        /\ \E j \in 1..Len(run[r].all_results) :
              /\ run[r].all_results[j].channel_id = c
              /\ run[r].all_results[j].stream_url = AltUrls[2]

\* C7: when the primary address fails and no alternate succeeds (every one
\* fails, or the stored list cannot be decoded), every listed alternate was
\* tried, the task returns the primary's own outcome (its error, status code
\* and response time) under the primary address, and committing the batch
\* records that outcome and leaves the channel's stored address as it was.
C7_PrimaryOutcomeKept ==
    [][\A r \in Procs : \A c \in Channels :
          LET t == run'[r].task[c]
              t0 == run[r].task[c]
          IN  /\ NotPromoted(t) =>
                    /\ Len(t.probed) = Len(ProbeOrder(c, t))
                    /\ t.promoted = None
                    /\ t.res.stream_url = t.url
                    /\ t.res.is_working = FALSE
                    /\ t.res.error_message = t.probed[1][2].error_message
                    /\ t.res.status_code = t.probed[1][2].status_code
                    /\ t.res.response_time = t.probed[1][2].response_time
              /\ (Gathers(r) /\ NotPromoted(t0)) =>
                    /\ channels'[c].stream_url = channels[c].stream_url
                    /\ \E k \in 1..Len(validation_results') :
                          /\ validation_results'[k].validation_log_id = run[r].log_id
                          /\ validation_results'[k].channel_id = c
                          /\ validation_results'[k].is_working = FALSE
                          /\ validation_results'[k].error_message = t0.probed[1][2].error_message
                          /\ validation_results'[k].status_code = t0.probed[1][2].status_code
                          /\ validation_results'[k].response_time = t0.probed[1][2].response_time]_vars

\* in one batch: a channel whose two alternates both failed, the last with
\* another outcome than the primary, and a channel whose list is undecodable
C7_Witness ==
    \E r \in Procs, c \in Channels, d \in Channels :
        /\ run[r].pc = "tasks"
        /\ NotPromoted(run[r].task[c])
        /\ Len(run[r].task[c].probed) = 3
        /\ run[r].task[c].probed[3][2] # run[r].task[c].probed[1][2]
        /\ NotPromoted(run[r].task[d])
        /\ channels[d].alternative_urls = Some(JsonInvalid)
        /\ Len(run[r].task[d].probed) = 1

\* the channels of run r inside their probe-plus-fallback sequence
InFlight(r) == {c \in Channels : run[r].task[c].st \in {"primary", "alt"}}

\* C8: within one run no channel has two ValidationResult rows, every row
\* belongs to a channel loaded for that run, and once its batch is committed
\* each channel whose task returned a result has exactly one row, holding
\* that result.
C8_OneRowPerProbedChannel ==
    /\ \A k, h \in 1..Len(validation_results) :
          ( /\ validation_results[k].validation_log_id = validation_results[h].validation_log_id
            /\ validation_results[k].channel_id = validation_results[h].channel_id ) => k = h
    /\ \A r \in Procs : \A k \in 1..Len(validation_results) :
          validation_results[k].validation_log_id = run[r].log_id =>
             validation_results[k].channel_id \in SeqToSet(run[r].channels)
    /\ \A r \in Procs : run[r].pc \in {"tasks", "finalize", "done"} =>
          \A j \in 1..Len(run[r].all_results) :
             Cardinality({k \in 1..Len(validation_results) :
                             validation_results[k] =
                                ResultRow(run[r].log_id, run[r].all_results[j])}) = 1

\* a run of two batches has committed both: three channels, three rows
C8_Witness ==
    \E r \in Procs :
        /\ run[r].pc = "finalize"
        /\ Len(run[r].channels) = 3
        /\ Len(run[r].all_results) = 3
        /\ Len(RowsOf(run[r].log_id)) = 3

\* C9: within a run the channels inside their probe-plus-fallback sequence
\* are never more than validation_concurrent_limit (the value the limiter
\* was created with); each of them holds exactly one slot from before its
\* primary probe, across its alternate probes, until its sequence ends, and
\* a sequence that raises holds none afterwards.
C9_ConcurrencyBounded ==
    [][\A r \in Procs :
          /\ (run[r].pc = "semaphore" /\ run'[r].pc = "tasks") =>
                run'[r].limit = settings.validation_concurrent_limit
          /\ run'[r].pc = "tasks" =>
                /\ run'[r].limit = run[r].limit \/ run[r].pc = "semaphore"
                /\ Cardinality(InFlight(r)') <= run'[r].limit
                /\ run'[r].sem >= 0
                /\ run'[r].sem + Cardinality(InFlight(r)') = run'[r].limit]_vars

\* limit 1: a channel is at its second alternate, still holding the only
\* slot, while another task of the batch waits
C9_Witness ==
    \E r \in Procs, c \in Channels, d \in Channels :
        /\ run[r].pc = "tasks"
        /\ run[r].limit = 1
        /\ run[r].sem = 0
        /\ run[r].task[c].st = "alt"
        /\ run[r].task[c].alt = 2
        /\ run[r].task[d].st = "waiting"

\* the position of channel c in the list run r loaded (0 when not in it)
PositionOf(r, c) ==
    IF c \in SeqToSet(run[r].channels)
    THEN CHOOSE j \in 1..Len(run[r].channels) : run[r].channels[j] = c
    ELSE 0

\* C10: a run works on one batch at a time, of at most batch_size channels
\* (50 in the code) taken in load order; the rows of a batch are committed
\* in one step, after every task of the batch has ended and before a task of
\* the next batch starts; rows are in load order and are never removed, also
\* by a crash, so a crash loses the in-flight batch at most.
C10_BatchesPersistInOrder ==
    [][/\ Len(validation_results') >= Len(validation_results)
       /\ SubSeq(validation_results', 1, Len(validation_results)) = validation_results
       /\ validation_results' # validation_results =>
             \E r \in Procs :
                /\ BatchGathered(r)
                /\ run'[r].i = run[r].i + batch_size
                /\ \A k \in (Len(validation_results) + 1)..Len(validation_results') :
                      /\ validation_results'[k].validation_log_id = run[r].log_id
                      /\ PositionOf(r, validation_results'[k].channel_id)
                            \in (run[r].i + 1)..(run[r].i + batch_size)
       /\ \A r \in Procs :
             /\ run[r].pc = "tasks" =>
                   LET started == {c \in Channels : run[r].task[c].st # "none"}
                   IN  /\ Cardinality(started) <= batch_size
                       /\ started = {run[r].channels[j] :
                                        j \in {h \in 1..Len(run[r].channels) :
                                                  h > run[r].i /\ h <= run[r].i + batch_size}}
                       /\ RowsOf(run[r].log_id) = ResultRows(run[r].log_id, run[r].all_results)
                       /\ \A k \in 1..Len(validation_results) :
                             validation_results[k].validation_log_id = run[r].log_id =>
                                /\ PositionOf(r, validation_results[k].channel_id) \in 1..run[r].i
                                /\ \A h \in 1..(k - 1) :
                                      validation_results[h].validation_log_id = run[r].log_id =>
                                         PositionOf(r, validation_results[h].channel_id)
                                            < PositionOf(r, validation_results[k].channel_id)
             /\ (run[r].pc # "crashed" /\ run'[r].pc = "crashed") =>
                   validation_results' = validation_results]_vars

\* the run crashed while a probe of its second batch was in flight; the two
\* rows of its first batch are persisted
C10_Witness ==
    \E r \in Procs, c \in Channels :
        /\ run[r].pc = "crashed"
        /\ run[r].i = batch_size
        /\ run[r].task[c].st \in {"primary", "alt"}
        /\ PositionOf(r, c) > batch_size
        /\ Len(RowsOf(run[r].log_id)) = batch_size


\* C11: a run that ended failed, or was interrupted, after at least one
\* batch was committed has a log with status failed and an error detail, and
\* every channel with a persisted outcome row of that run shows the outcome
\* in its status fields (working, failure_count, check_count, last_checked).
C11_FailedRunShowsProgress ==
    \A r \in Procs :
        ( /\ run[r].pc \in {"raised", "crashed"}
          /\ run[r].log_id # 0
          /\ RowsOf(run[r].log_id) # <<>> )
        => /\ validation_logs[run[r].log_id].status = "failed"
           /\ validation_logs[run[r].log_id].error_details # None
           /\ \A k \in 1..Len(validation_results) :
                 LET row == validation_results[k]
                     c == row.channel_id
                 IN  row.validation_log_id = run[r].log_id =>
                        /\ channels[c].is_working = row.is_working
                        /\ channels[c].last_checked = Some(row.checked_at)
                        /\ channels[c].check_count >= 1
                        /\ row.is_working => channels[c].failure_count = 0
                        /\ ~row.is_working => channels[c].failure_count >= 1

\* the channels run r loaded whose task left no result
WithoutResult(r) ==
    {c \in SeqToSet(run[r].channels) :
        \A j \in 1..Len(run[r].all_results) : run[r].all_results[j].channel_id # c}

\* C12: an exception raised while validating one channel leaves the other
\* tasks, the run and its log as they are; when the batch is committed the
\* other channels get their rows and the failing channel gets none; and the
\* run finalizes as completed without changing any field of the failing
\* channel.
C12_ChannelExceptionIsolated ==
    [][\A r \in Procs : \A c \in Channels :
          /\ (run[r].task[c].st # "raised" /\ run'[r].task[c].st = "raised") =>
                /\ run'[r].pc = "tasks"
                /\ \A d \in Channels \ {c} : run'[r].task[d] = run[r].task[d]
                /\ validation_logs' = validation_logs
                /\ validation_results' = validation_results
          /\ (Gathers(r) /\ run[r].task[c].st = "raised") =>
                /\ run'[r].pc \in {"tasks", "finalize"}
                /\ \A k \in 1..Len(validation_results') :
                      validation_results'[k].validation_log_id = run[r].log_id =>
                         validation_results'[k].channel_id # c
                /\ \A d \in Channels : run[r].task[d].st = "done" =>
                      \E k \in 1..Len(validation_results') :
                         validation_results'[k] = ResultRow(run[r].log_id, run[r].task[d].res)
          /\ (Finalizes(r) /\ c \in WithoutResult(r)) =>
                /\ channels'[c] = channels[c]
                /\ validation_logs'[run[r].log_id].status = "completed"]_vars

\* a run completed although the task of one of its channels raised: that
\* channel has no row and was never checked, another channel has its row
C12_Witness ==
    \E r \in Procs, c \in Channels, d \in Channels :
        /\ run[r].pc = "done"
        /\ run[r].log_id # 0
        /\ validation_logs[run[r].log_id].status = "completed"
        /\ c \in WithoutResult(r)
        /\ channels[c].check_count = 0
        /\ channels[c].last_checked = None
        /\ d \in SeqToSet(run[r].channels) \ WithoutResult(r)
        /\ channels[d].last_checked = Some(run[r].log_id)
        /\ \E k \in 1..Len(validation_results) :
              /\ validation_results[k].validation_log_id = run[r].log_id
              /\ validation_results[k].channel_id = d

\* C13: every validate_playlist call that raised, also one whose playlist or
\* channel set could not be loaded, has left a ValidationLog with status
\* failed and the error text in its detail field.
C13_RaisedRunHasFailedLog ==
    \A r \in Procs : run[r].pc = "raised" =>
        /\ run[r].log_id \in DOMAIN validation_logs
        /\ validation_logs[run[r].log_id].status = "failed"
        /\ validation_logs[run[r].log_id].error_details # None

\* C14: when a run completes, its log has status completed, completed_at
\* set, working_channels and failed_channels equal to the numbers of working
\* and non-working outcomes recorded over all batches, and the owning
\* playlist's last_validated is updated.
C14_CountsAggregated ==
    [][\A r \in Procs : Finalizes(r) =>
          LET results == run[r].all_results
              log == validation_logs'[run[r].log_id]
          IN  /\ log.status = "completed"
              /\ log.completed_at # None
              /\ log.working_channels =
                    Cardinality({j \in 1..Len(results) : results[j].is_working})
              /\ log.failed_channels =
                    Cardinality({j \in 1..Len(results) : ~results[j].is_working})
              /\ log.working_channels + log.failed_channels = Len(RowsOf(run[r].log_id))
              /\ playlists'[run[r].playlist_id].last_validated = log.completed_at]_vars

\* scenario C: of three channels one succeeds, one times out and one is
\* promoted to its first alternate: working=2, failed=1, three rows
C14_Witness ==
    \E r \in Procs :
        LET results == run[r].all_results
        IN  /\ run[r].pc = "done"
            /\ Len(results) = 3
            /\ \E j \in 1..3 : results[j].is_working /\ results[j].stream_url = AltUrls[1]
            /\ \E j \in 1..3 : results[j].is_working /\ results[j].stream_url = "http://primary"
            /\ \E j \in 1..3 : results[j].error_message = Some("Request timeout")
            /\ validation_logs[run[r].log_id].status = "completed"
            /\ validation_logs[run[r].log_id].working_channels = 2
            /\ validation_logs[run[r].log_id].failed_channels = 1
            /\ Len(RowsOf(run[r].log_id)) = 3

\* the step in which process r calls validate_playlist on an existing
\* playlist and the call gets past its queries
Enters(r) ==
    /\ Ended(r)
    /\ run'[r] # run[r]
    /\ run'[r].playlist_id \in DOMAIN playlists
    /\ run'[r].pc # "raised"

\* what entering the running state leaves: one more log, running, with the
\* number of active channels of the playlist, and no task started yet
LogCreated(r) ==
    LET p == run'[r].playlist_id
    IN  /\ Len(validation_logs') = Len(validation_logs) + 1
        /\ run'[r].log_id = Len(validation_logs')
        /\ validation_logs'[run'[r].log_id].status = "running"
        /\ validation_logs'[run'[r].log_id].playlist_id = p
        /\ validation_logs'[run'[r].log_id].total_channels = Len(ActiveChannelsOf(p))
        /\ \A c \in Channels : run'[r].task[c].st = "none"

\* logs are created by entering only, a run that probes has its log, and
\* playlist_id and total_channels of a log never change
LogKept ==
    /\ Len(validation_logs') # Len(validation_logs) => \E r \in Procs : Enters(r)
    /\ \A r \in Procs : run'[r].pc = "tasks" =>
          /\ run'[r].log_id \in DOMAIN validation_logs'
          /\ validation_logs'[run'[r].log_id].total_channels = Len(run'[r].channels)
    /\ \A id \in DOMAIN validation_logs :
          /\ id \in DOMAIN validation_logs'
          /\ validation_logs'[id].total_channels = validation_logs[id].total_channels
          /\ validation_logs'[id].playlist_id = validation_logs[id].playlist_id

\* C15 as stated: every validate_playlist call on an existing playlist
\* creates exactly one ValidationLog, persisted as running with
\* total_channels = the number of active channels loaded, before any probe
\* starts, and total_channels does not change afterwards.
C15_EveryCallCreatesLog ==
    [][/\ \A r \in Procs : Enters(r) => LogCreated(r)
       /\ LogKept]_vars

\* C15 amended: the same for every call that loads at least one active
\* channel; a call that loads none creates no log.
C15_CallWithChannelsCreatesLog ==
    [][/\ \A r \in Procs : Enters(r) =>
             IF ActiveChannelsOf(run'[r].playlist_id) # <<>>
             THEN LogCreated(r)
             ELSE validation_logs' = validation_logs /\ run'[r].pc = "done"
       /\ LogKept]_vars

\* a probe is in flight under a running log that counts the loaded channels
C15_Witness ==
    \E r \in Procs, c \in Channels :
        /\ run[r].pc = "tasks"
        /\ run[r].task[c].st = "primary"
        /\ Len(run[r].channels) >= 2
        /\ validation_logs[run[r].log_id].status = "running"
        /\ validation_logs[run[r].log_id].total_channels = Len(run[r].channels)

(***************************************************************************)
(* validate_all_playlists and the unified playlist                         *)
(***************************************************************************)
\* the step in which validate_all_playlists calls validate_playlist
Calls(r) == run[r].pc = "idle" /\ run'[r].pc # "idle"

\* the step in which the call of validate_playlist is over for the loop
Collects(r) == run[r].pc # "idle" /\ run'[r].pc = "idle"

\* C16: validate_all_playlists runs validate_playlist for every active
\* playlist exactly once, one call after another: the playlists loaded are
\* the active ones, each once; the j-th call starts when j - 1 calls are
\* over and is for the j-th playlist; a call that raised leaves an entry
\* with the error for its playlist and the loop goes on to the next
\* playlist, as after a call that returned.
C16_EveryActivePlaylistOnce ==
    [][LET r == "scheduler"
           all == validate_all
           n == Len(validate_all.results)
       IN  /\ all.pc = "idle" /\ all'.pc = "loop" =>
                 /\ \A p \in DOMAIN playlists :
                        Cardinality({j \in DOMAIN all'.playlists : all'.playlists[j] = p})
                           = IF playlists[p].is_active THEN 1 ELSE 0
                 /\ \A j \in DOMAIN all'.playlists : all'.playlists[j] \in DOMAIN playlists
           /\ all.pc # "idle" => all'.playlists = all.playlists
           /\ Calls(r) =>
                 /\ all.pc = "loop"
                 /\ n < Len(all.playlists)
                 /\ run'[r].playlist_id = all.playlists[n + 1]
           /\ Collects(r) =>
                 /\ run[r].pc \in {"done", "raised"}
                 /\ all'.results = Append(all.results,
                                          [playlist_id |-> all.playlists[n + 1],
                                           error |-> run[r].pc = "raised"])
                 /\ all'.pc = IF n + 1 < Len(all.playlists) THEN "loop" ELSE "generate"
           /\ all'.results # all.results => Collects(r)
           /\ all.pc = "loop" /\ all'.pc # "loop" => all'.pc = "generate"
           /\ all'.pc = "generate" => Len(all'.results) = Len(all'.playlists)]_vars

\* the call for the first playlist raised, the call for the second one then
\* completed, and both have their entry
C16_Witness ==
    /\ validate_all.pc = "generate"
    /\ Len(validate_all.results) = 2
    /\ validate_all.results[1] = [playlist_id |-> 1, error |-> TRUE]
    /\ validate_all.results[2] = [playlist_id |-> 2, error |-> FALSE]
    /\ \E id \in DOMAIN validation_logs :
          /\ validation_logs[id].playlist_id = 2
          /\ validation_logs[id].status = "completed"

\* C17: every validate_all_playlists call that returns has triggered
\* generate_unified_playlist exactly once, after the last per-playlist run
\* finished, for every number of active playlists and whether or not some
\* runs failed: generation is called by the loop's end only, when no run is
\* in progress and every loaded playlist has its entry, and a call that has
\* returned has called it once.
C17_EveryReturnGenerated ==
    [][/\ validate_all'.generated # validate_all.generated =>
             /\ validate_all.generated = 0
             /\ validate_all'.generated = 1
             /\ run["scheduler"].pc = "idle"
             /\ Len(validate_all.results) = Len(validate_all.playlists)
             /\ generate'.caller = "validate_all"
             /\ generate'.pc = "selected"
       /\ validate_all'.pc = "returned" => validate_all'.generated = 1]_vars

\* channel c is in the scope the claim gives a run of playlist p: c is owned
\* by p and p is an active playlist
InScope(c, p) ==
    /\ p \in DOMAIN playlists
    /\ playlists[p].is_active
    /\ channels[c].playlist_id = p

\* C18: validate_playlist(p) probes and updates only channels that are owned
\* by playlist p and are active when the run loads them, and only when p is
\* an active playlist: the channels a run loads are active channels in
\* scope, a probe is sent for a loaded channel in scope only, and a Channel
\* row changes only for a loaded channel in scope.
C18_OnlyChannelsOfActivePlaylist ==
    [][\A c \in Channels :
          /\ \A r \in Procs :
                /\ (run'[r].channels # run[r].channels /\ c \in SeqToSet(run'[r].channels)) =>
                       channels[c].is_active /\ InScope(c, run'[r].playlist_id)
                /\ Len(run'[r].task[c].probed) > Len(run[r].task[c].probed) =>
                       c \in SeqToSet(run[r].channels) /\ InScope(c, run[r].playlist_id)
          /\ channels'[c] # channels[c] =>
                \E r \in Procs :
                    c \in SeqToSet(run[r].channels) /\ InScope(c, run[r].playlist_id)]_vars

\* the channels the claim lets into the artifact
Eligible ==
    {c \in Channels : /\ channels[c].is_active
                      /\ channels[c].is_working
                      /\ channels[c].playlist_id \in DOMAIN playlists
                      /\ playlists[channels[c].playlist_id].is_active}

\* the entries of a playlist text: the pairs of lines after the header
EntriesOf(lines) ==
    [j \in 1..((Len(lines) - 1) \div 2) |-> [extinf |-> lines[2 * j], url |-> lines[2 * j + 1]]]

\* the group-title written on an #EXTINF line
GroupOf(extinf) ==
    LET at == {j \in DOMAIN extinf.attrs : extinf.attrs[j][1] = "group-title"}
    IN  IF at = {} THEN "" ELSE extinf.attrs[CHOOSE j \in at : TRUE][2]

\* group_title as the artifact shows it for channel c
ShownGroup(c) == IF ChannelGroup(c) = None THEN "General" ELSE ChannelGroup(c)[1]

\* the entry is the one of channel c: its address, its name and its group
Describes(entry, c) ==
    /\ entry.url.kind = "url"
    /\ entry.url.text = channels[c].stream_url
    /\ entry.extinf.kind = "extinf"
    /\ entry.extinf.text = ChannelName(c)
    /\ GroupOf(entry.extinf) = ShownGroup(c)

\* the entry has the address of channel c, or its name and group up to case
Duplicates(entry, c) ==
    \/ entry.url.text = channels[c].stream_url
    \/ /\ Lower(entry.extinf.text) = Lower(ChannelName(c))
       /\ Lower(GroupOf(entry.extinf)) = Lower(ShownGroup(c))

\* the step in which generate_unified_playlist runs its query and renders
Selects ==
    /\ generate' # generate
    /\ generate'.pc = "selected" \/ generate'.caller = "route"

\* C19: the artifact written by generate_unified_playlist contains only
\* channels that at selection time are active, working and owned by an
\* active playlist, and every such channel that deduplication does not drop
\* appears in it exactly once: every entry is the entry of such a channel, no
\* two entries share an address or a name and group, such a channel without
\* an entry duplicates an entry that is there, and a write that completes
\* leaves this text in the file.
C19_ArtifactHoldsEligibleChannels ==
    [][/\ Selects =>
             LET lines == generate'.content
                 entries == EntriesOf(lines)
             IN  /\ Len(lines) = 2 * Len(entries) + 1
                 /\ lines[1] = HeaderLine
                 /\ \A j \in DOMAIN entries : \E c \in Eligible : Describes(entries[j], c)
                 /\ \A i, j \in DOMAIN entries :
                        i # j => /\ entries[i].url.text # entries[j].url.text
                                 /\ \/ Lower(entries[i].extinf.text) # Lower(entries[j].extinf.text)
                                    \/ Lower(GroupOf(entries[i].extinf))
                                          # Lower(GroupOf(entries[j].extinf))
                 /\ \A c \in Eligible :
                        LET own == {j \in DOMAIN entries : Describes(entries[j], c)}
                        IN  \/ Cardinality(own) = 1
                            \/ /\ own = {}
                               /\ \E j \in DOMAIN entries : Duplicates(entries[j], c)
       /\ generate'.pc # "selected" => generate'.content = generate.content \/ Selects
       /\ (generate'.pc = "returned" /\ generate' # generate) =>
             playlist_file' = [exists |-> TRUE, lines |-> generate'.content]]_vars

\* validate_all_playlists wrote an artifact with an entry, from a selection
\* that left out a channel for not being eligible and dropped a duplicate
C19_Witness ==
    /\ generate.caller = "validate_all"
    /\ generate.pc = "returned"
    /\ playlist_file.lines = generate.content
    /\ Len(generate.channel_data) >= 1
    /\ Len(generate.selected) > Len(generate.channel_data)
    /\ Len(generate.selected) < NumChannels
    /\ \E c \in Channels : channels[c].is_active /\ ~channels[c].is_working
                              /\ playlists[channels[c].playlist_id].is_active

\* the file the new content replaces completely
NewFile == [exists |-> TRUE, lines |-> generate.content]

\* C20: at every moment, including while generate_unified_playlist is
\* writing and after a write that fails part-way, the unified artifact file
\* holds either the complete previous content or the complete new content,
\* and a reader of /playlist.m3u running concurrently with consolidation
\* never receives an empty, truncated or partial playlist.
C20_ArtifactNeverPartial ==
    /\ generate.pc \in {"open", "raised"} => playlist_file \in {generate.previous, NewFile}
    /\ generate.pc = "returned" => playlist_file = NewFile
    /\ (served.status = 200 /\ generate.pc \in {"open", "raised", "returned"}) =>
          \/ served.lines = generate.content
          \/ generate.previous.exists /\ served.lines = generate.previous.lines

\* a step of generate_unified_playlist: its locals or the file change
Generates == generate' # generate \/ playlist_file' # playlist_file

\* C21: generate_unified_playlist leaves every Channel and Playlist field
\* unchanged (active, working, failure_count, check_count, stream address,
\* last_validated): it only reads them and writes the artifact file.
C21_GenerateReadsOnly ==
    [][Generates => /\ channels' = channels
                    /\ playlists' = playlists]_vars

\* the scheduler's generation wrote the artifact while some channel is
\* retired, and the channels it selected are as it read them
C21_Witness ==
    /\ generate.caller = "validate_all"
    /\ generate.pc = "returned"
    /\ playlist_file = [exists |-> TRUE, lines |-> generate.content]
    /\ Len(generate.selected) >= 2
    /\ \E c \in Channels : channels[c].check_count > 0 /\ ~channels[c].is_active
    /\ \A j \in DOMAIN generate.selected :
          /\ channels[generate.selected[j]].is_active
          /\ channels[generate.selected[j]].is_working


(***************************************************************************)
(* Properties of deduplicate_channels                                      *)
(***************************************************************************)
\* the stream address and the case-insensitive pair of name and group of a
\* record (a field the record lacks counts as empty)
AddressOf(record) == IF "stream_url" \in DOMAIN record THEN record.stream_url ELSE ""
PairOf(record) ==
    <<Lower(IF "name" \in DOMAIN record THEN record.name ELSE ""),
      Lower(IF "group_title" \in DOMAIN record THEN record.group_title ELSE "")>>

\* the records of list at the places of S, in the order of list
RECURSIVE Kept(_, _, _)
Kept(list, S, i) ==
    IF i > Len(list) THEN <<>>
    ELSE (IF i \in S THEN <<list[i]>> ELSE <<>>) \o Kept(list, S, i + 1)

Deduplicated == codec.pc = "deduplicated"

\* C22: deduplicate_channels returns a subsequence of its input (not longer,
\* the surviving records in input order) in which no two records share a
\* stream address and no two share a case-insensitive pair of name and group.
C22_UniqueSubsequence ==
    Deduplicated =>
        /\ Len(codec.unique) <= Len(codec.channels)
        /\ \E S \in SUBSET DOMAIN codec.channels : codec.unique = Kept(codec.channels, S, 1)
        /\ \A i, j \in DOMAIN codec.unique :
              i < j => /\ AddressOf(codec.unique[i]) # AddressOf(codec.unique[j])
                       /\ PairOf(codec.unique[i]) # PairOf(codec.unique[j])

\* a list of three records with three addresses, two of which differ in the
\* case of the name only, has lost the second of the two
C22_Witness ==
    /\ Deduplicated
    /\ Len(codec.channels) = 3
    /\ Cardinality({AddressOf(codec.channels[i]) : i \in 1..3}) = 3
    /\ PairOf(codec.channels[1]) = PairOf(codec.channels[3])
    /\ codec.channels[1].name # codec.channels[3].name
    /\ codec.unique = <<codec.channels[1], codec.channels[2]>>

\* the lower-cased name:group key of a record, as one string
KeyOf(record) == PairOf(record)[1] \o ":" \o PairOf(record)[2]

\* S holds the first place, and a later place exactly when no place of S
\* before it has its stream address or its key
Greedy(list, S) ==
    \A i \in DOMAIN list :
        i \in S <=> ~\E j \in S : /\ j < i
                                  /\ \/ AddressOf(list[j]) = AddressOf(list[i])
                                     \/ KeyOf(list[j]) = KeyOf(list[i])

\* C23: deduplicate_channels is the greedy pass from left to right: the
\* first record survives, a later record is dropped exactly when its stream
\* address or its lower-cased name:group key is that of a record that
\* survived before it; so CNN/News/http://a, CNN/News/http://b,
\* BBC/UK/http://a yield the first record only.
C23_GreedyPass ==
    Deduplicated =>
        /\ \E S \in SUBSET DOMAIN codec.channels :
              Greedy(codec.channels, S) /\ codec.unique = Kept(codec.channels, S, 1)
        /\ codec.channels # <<>> => codec.unique # <<>> /\ codec.unique[1] = codec.channels[1]
        /\ codec.channels = << [name |-> "CNN", group_title |-> "News", stream_url |-> "http://a"],
                               [name |-> "CNN", group_title |-> "News", stream_url |-> "http://b"],
                               [name |-> "BBC", group_title |-> "UK", stream_url |-> "http://a"] >>
              => codec.unique = <<[name |-> "CNN", group_title |-> "News",
                                   stream_url |-> "http://a"]>>

\* the second record was dropped for the address of the first, and the third
\* survives although it has the name and the group of the second
C23_Witness ==
    /\ Deduplicated
    /\ Len(codec.channels) = 3
    /\ AddressOf(codec.channels[2]) = AddressOf(codec.channels[1])
    /\ KeyOf(codec.channels[2]) # KeyOf(codec.channels[1])
    /\ KeyOf(codec.channels[3]) = KeyOf(codec.channels[2])
    /\ codec.unique = <<codec.channels[1], codec.channels[3]>>


(***************************************************************************)
(* Properties of parse_m3u_content and generate_m3u_content                *)
(***************************************************************************)
\* the lines of a text as the parser looks at them
RECURSIVE StripAll(_)
StripAll(lines) == IF lines = <<>> THEN <<>> ELSE <<strip(Head(lines))>> \o StripAll(Tail(lines))

GivenLines == StripAll(split(strip(codec.content), "\n"))

IsMetadata(line) == startswith(line, "#EXTINF")
IsAddress(line) == line # "" /\ ~startswith(line, "#")

\* the address line k follows the metadata line m: no metadata line and no
\* address line stands between them
Follows(lines, m, k) ==
    /\ m < k
    /\ IsMetadata(lines[m])
    /\ IsAddress(lines[k])
    /\ \A i \in (m + 1)..(k - 1) : ~IsMetadata(lines[i]) /\ ~IsAddress(lines[i])

HasMetadata(lines, k) == \E m \in DOMAIN lines : Follows(lines, m, k)
MetadataOf(lines, k) == lines[CHOOSE m \in DOMAIN lines : Follows(lines, m, k)]

\* the address lines from line k on, each with the metadata line it follows
\* ("" when it follows none)
RECURSIVE AddressesFrom(_, _)
AddressesFrom(lines, k) ==
    IF k > Len(lines) THEN <<>>
    ELSE (IF ~IsAddress(lines[k]) THEN <<>>
          ELSE IF HasMetadata(lines, k)
          THEN <<[metadata |-> MetadataOf(lines, k), address |-> lines[k]]>>
          ELSE <<[metadata |-> "", address |-> lines[k]]>>)
         \o AddressesFrom(lines, k + 1)

GivenEntries == SelectSeq(AddressesFrom(GivenLines, 1), LAMBDA e : e.metadata # "")

\* the records of a list that were made of a metadata line
OfMetadata(records) == SelectSeq(records, LAMBDA r : "tvg_id" \in DOMAIN r)

RecognizedAttributes == {"tvg_id", "tvg_name", "tvg_logo", "tvg_epg", "group_title"}

Parsed == codec.pc \in {"parsed", "generated", "again"}

ExampleText == "#EXTM3U\n#EXTINF:-1 tvg-id=\"c1\" group-title=\"News\",CNN\nhttp://x/cnn"

\* C24: parse_m3u_content returns, in input order, one record for each
\* metadata line that an address line follows, with the recognized
\* attributes and the display name read from that metadata line and with
\* that address; the header, the metadata line of CNN (tvg-id c1,
\* group-title News) and http://x/cnn give one record with these four values.
C24_OneRecordPerEntry ==
    Parsed =>
        /\ Len(OfMetadata(codec.channels)) = Len(GivenEntries)
        /\ \A e \in DOMAIN GivenEntries :
              LET record == OfMetadata(codec.channels)[e]
                  read == _parse_extinf_line(GivenEntries[e].metadata)
              IN  /\ record.stream_url = GivenEntries[e].address
                  /\ record.name = read.name
                  /\ \A a \in RecognizedAttributes : record[a] = read[a]
        /\ codec.content = ExampleText =>
              /\ Len(codec.channels) = 1
              /\ codec.channels[1].name = "CNN"
              /\ codec.channels[1].tvg_id = "c1"
              /\ codec.channels[1].group_title = "News"
              /\ codec.channels[1].stream_url = "http://x/cnn"

\* the text of the example was parsed into its one record
C24_Witness ==
    /\ codec.pc = "parsed"
    /\ codec.content = ExampleText
    /\ codec.channels = <<[name |-> "CNN", group_title |-> "News", logo |-> "",
                           tvg_id |-> "c1", tvg_name |-> "", tvg_logo |-> "",
                           tvg_epg |-> "", stream_url |-> "http://x/cnn"]>>


\* the places of the commas of a line, and the text after the last of them
Commas(line) == {k \in 1..Len(line) : CharAt(line, k) = ","}
AfterLastComma(line) ==
    From(line, (CHOOSE k \in Commas(line) : \A other \in Commas(line) : other <= k) + 1)

\* C25: the display name parsed from a metadata line is the trimmed text
\* after the last comma of the line, however many commas the line has.
C25_NameAfterLastComma ==
    Parsed =>
        \A e \in DOMAIN GivenEntries :
            Commas(GivenEntries[e].metadata) # {}
                => OfMetadata(codec.channels)[e].name
                      = strip(AfterLastComma(GivenEntries[e].metadata))

\* the key of an attribute pair as the record names it, and its value
PairKey(match) == replace(Lower(IF match[1] # "" THEN match[1] ELSE match[3]), "-", "_")
PairValue(match) == IF match[1] # "" THEN match[2] ELSE match[4]

\* the value the pairs of a line give to a recognized attribute: that of the
\* last pair of that key, "" when there is none
RECURSIVE ValueOf(_, _, _)
ValueOf(pairs, attr, value) ==
    IF pairs = <<>> THEN value
    ELSE ValueOf(Tail(pairs), attr,
                 IF PairKey(Head(pairs)) = attr /\ PairValue(Head(pairs)) # ""
                 THEN PairValue(Head(pairs)) ELSE value)

\* the recognized attributes of a record are those of the pairs of its line,
\* whatever the case of the keys and with hyphens for underscores
AttributesTaken ==
    \A e \in DOMAIN GivenEntries :
        \A a \in RecognizedAttributes :
            OfMetadata(codec.channels)[e][a] = ValueOf(findall(GivenEntries[e].metadata, 1), a, "")

\* C26: attribute keys are matched without regard to case and with hyphens
\* taken as underscores, and only tvg_id, tvg_name, tvg_logo, tvg_epg and
\* group_title are taken from attribute pairs: a pair of any other key
\* changes no field of the record (logo stays empty, and the name is the text
\* after the comma, empty when the line has none).
C26_OnlyRecognizedAttributes ==
    Parsed =>
        /\ AttributesTaken
        /\ \A e \in DOMAIN GivenEntries :
              /\ OfMetadata(codec.channels)[e].logo = ""
              /\ Commas(GivenEntries[e].metadata) = {} => OfMetadata(codec.channels)[e].name = ""


GivenAddresses == AddressesFrom(GivenLines, 1)

\* C27: parse_m3u_content never fails on text of a wrong structure: a
\* metadata line that no address follows gives no record, an empty text
\* gives no record, and every address line around still gives its record.
C27_NeverFails ==
    /\ codec.pc # "raised"
    /\ Parsed =>
          /\ Len(codec.channels) = Len(GivenAddresses)
          /\ \A k \in DOMAIN GivenAddresses :
                codec.channels[k].stream_url = GivenAddresses[k].address
          /\ strip(codec.content) = "" => codec.channels = <<>>

\* the text of a path after its last "/", and that text without its
\* extension (the text from its last dot on)
RECURSIVE AfterLast(_, _)
AfterLast(s, char) ==
    IF find(s, {char}, 1) = 0 THEN s ELSE AfterLast(From(s, find(s, {char}, 1) + 1), char)

RECURSIVE BeforeLast(_, _)
BeforeLast(s, char) ==
    IF find(s, {char}, 1) = 0 THEN s
    ELSE IF find(From(s, find(s, {char}, 1) + 1), {char}, 1) = 0
    THEN SubSeq(s, 1, find(s, {char}, 1) - 1)
    ELSE SubSeq(s, 1, find(s, {char}, 1)) \o BeforeLast(From(s, find(s, {char}, 1) + 1), char)

SegmentName(address) == BeforeLast(AfterLast(urlparse(address).path, "/"), ".")

\* C28: an address line that follows no metadata line gives a record with
\* that line as address and, as name, the last segment of the path of the
\* URL without its extension, or "Unknown Channel" when that is empty.
C28_NameOfBareAddress ==
    Parsed =>
        /\ Len(codec.channels) = Len(GivenAddresses)
        /\ \A k \in DOMAIN GivenAddresses :
              GivenAddresses[k].metadata = ""
                 => /\ codec.channels[k].stream_url = GivenAddresses[k].address
                    /\ codec.channels[k].name =
                          IF SegmentName(GivenAddresses[k].address) = "" THEN "Unknown Channel"
                          ELSE SegmentName(GivenAddresses[k].address)

\* name, group, tvg attributes and address of a record
TupleOf(record) ==
    [field \in {"name", "stream_url"} \cup RecognizedAttributes |->
        IF field \in DOMAIN record THEN record[field] ELSE ""]
Tuples(records) == {TupleOf(records[k]) : k \in DOMAIN records}

\* C29: parsing the text generated from the records parsed from a text
\* gives the same set of tuples of name, group, tvg attributes and address
\* as parsing the text itself.
C29_RoundTrip == codec.pc = "again" => Tuples(codec.again) = Tuples(codec.channels)

\* the metadata line of a record: the non-empty recognized attributes in the
\* order tvg_id, tvg_name, tvg_logo, tvg_epg, group_title, a comma, the name
Embedded(record, attr, key) ==
    IF attr \in DOMAIN record /\ record[attr] # ""
    THEN " " \o key \o "=\"" \o record[attr] \o "\"" ELSE ""
MetadataLineOf(record) ==
    "#EXTINF:-1" \o Embedded(record, "tvg_id", "tvg-id")
                 \o Embedded(record, "tvg_name", "tvg-name")
                 \o Embedded(record, "tvg_logo", "tvg-logo")
                 \o Embedded(record, "tvg_epg", "tvg-epg")
                 \o Embedded(record, "group_title", "group-title")
                 \o "," \o record.name

Generated == codec.pc \in {"generated", "again"}
GeneratedLines == split(codec.text, "\n")

\* C30: generate_m3u_content emits #EXTM3U as first line, then for each
\* record in input order one metadata line and its address line; the
\* metadata line holds the non-empty recognized attributes only, in the
\* order tvg_id, tvg_name, tvg_logo, tvg_epg, group_title, then a comma and
\* the name; there are as many metadata lines as records.
C30_GeneratedLines ==
    Generated =>
        /\ Len(GeneratedLines) = 2 * Len(codec.channels) + 1
        /\ GeneratedLines[1] = "#EXTM3U"
        /\ \A k \in DOMAIN codec.channels :
              /\ GeneratedLines[2 * k] = MetadataLineOf(codec.channels[k])
              /\ GeneratedLines[2 * k + 1] = codec.channels[k].stream_url
        /\ Cardinality({k \in DOMAIN GeneratedLines : IsMetadata(GeneratedLines[k])})
              = Len(codec.channels)

\* the record with the five attributes, given in another order, and a bare
\* address were generated
C30_Witness ==
    /\ codec.pc = "generated"
    /\ Len(codec.channels) = 2
    /\ codec.channels[1].name = "All"
    /\ codec.text = "#EXTM3U\n"
          \o "#EXTINF:-1 tvg-id=\"i\" tvg-name=\"n\" tvg-logo=\"l\" tvg-epg=\"e\" group-title=\"g\",All\n"
          \o "http://x/cnn\n"
          \o "#EXTINF:-1 group-title=\"Unknown\",Unknown Channel\n"
          \o "http://x/live/"


(***************************************************************************)
(* Properties of validate_stream_url                                       *)
(***************************************************************************)
ProbeReturned == probe.pc = "returned"

\* the methods of the requests issued, in order
Methods == [k \in DOMAIN probe.requests |-> probe.requests[k].method]

\* the outcome for a response of some status that is working exactly for
\* the statuses of a set
Answers(status, working) ==
    /\ probe.outcome.is_working = (status \in working)
    /\ probe.outcome.status_code = <<status>>
    /\ probe.outcome.is_working => probe.outcome.error_message = <<>>

\* C31: validate_stream_url issues HEAD first; a response to HEAD gives
\* working exactly for 200, 301, 302, with the status recorded and no other
\* request; GET for the first 1024 bytes is issued only when HEAD raised a
\* transport error that is no timeout, and a response to it gives working
\* exactly for 200, 206, 301, 302, with the status recorded.
C31_HeadThenRangedGet ==
    /\ probe.requests # <<>> => probe.requests[1] = [method |-> "HEAD", range |-> ""]
    /\ Len(probe.requests) <= 2
    /\ Len(probe.requests) = 2 <=>
          probe.failures # <<>> /\ probe.failures[1].class = "ClientError"
    /\ Len(probe.requests) = 2 =>
          probe.requests[2] = [method |-> "GET", range |-> "bytes=0-1023"]
    /\ ProbeReturned /\ probe.statuses # <<>> =>
          IF Methods = <<"HEAD">>
          THEN probe.failures = <<>> /\ Answers(probe.statuses[1], {200, 301, 302})
          ELSE Methods = <<"HEAD", "GET">> /\ Answers(probe.statuses[1], {200, 206, 301, 302})

\* HEAD was answered 206 and the call returned not working with one request
\* issued
C31_Witness ==
    /\ ProbeReturned
    /\ Methods = <<"HEAD">>
    /\ probe.statuses = <<206>>
    /\ ~probe.outcome.is_working
    /\ probe.outcome.error_message = <<"HTTP 206">>

TimedOut == \E k \in DOMAIN probe.failures : probe.failures[k].class = "TimeoutError"

\* C32: a timeout of the HEAD or of the GET gives working = false with the
\* error "Request timeout", the same at both stages and given for no other
\* failure, and no status code.
C32_TimeoutDistinguished ==
    ProbeReturned /\ probe.failures # <<>> =>
        /\ TimedOut => /\ ~probe.outcome.is_working
                       /\ probe.outcome.error_message = <<"Request timeout">>
                       /\ probe.outcome.status_code = <<>>
        /\ probe.statuses = <<>> /\ ~TimedOut
              => probe.outcome.error_message # <<"Request timeout">>

\* the shape of the tuple validate_stream_url returns
IsOutcome(o) ==
    /\ DOMAIN o = {"is_working", "response_time", "error_message", "status_code"}
    /\ o.is_working \in BOOLEAN
    /\ o.response_time \in Nat
    /\ o.is_working => o.error_message = <<>>
    /\ ~o.is_working => o.error_message # <<>>

\* C33: validate_stream_url returns a tuple for every address and after
\* every failure of the HEAD or of the GET, and never raises; for an empty
\* or blank address it returns working = false with no request issued.
C33_NeverRaises ==
    /\ ~probe.raised
    /\ probe.pc # "raised"
    /\ ProbeReturned =>
          /\ IsOutcome(probe.outcome)
          /\ ~probe.outcome.is_working \/ probe.statuses # <<>>
          /\ probe.url \in {"", "  \t"} =>
                /\ probe.requests = <<>>
                /\ probe.outcome = [is_working |-> FALSE, response_time |-> 0,
                                    error_message |-> <<"Empty URL">>, status_code |-> <<>>]
    /\ probe.pc \in {"head", "get"} => probe.url \notin {"", "  \t"}

\* the call with a blank address returned
C33_Witness ==
    /\ ProbeReturned
    /\ probe.url = "  \t"
    /\ probe.requests = <<>>
    /\ ~probe.outcome.is_working

(***************************************************************************)
(* Properties of a run on a live event loop                                *)
(***************************************************************************)
RequestTimeout == Outcome(FALSE, 3, Some("Request timeout"), None)

\* the last probe the task of channel c awaited timed out
TimedOutAttempt(c) ==
    /\ run["api"].pc = "tasks"
    /\ run["api"].task[c].probed # <<>>
    /\ Last(run["api"].task[c].probed)[2] = RequestTimeout

\* the alternatives stored for channel c
StoredAlternatives(c) ==
    IF channels[c].alternative_urls # None /\ JsonLoads(channels[c].alternative_urls[1]).ok
    THEN JsonLoads(channels[c].alternative_urls[1]).value
    ELSE <<>>

\* the run of the api ended completed with an outcome row for every channel
\* it loaded
CompletedWithAllRows ==
    /\ run["api"].pc = "done"
    /\ run["api"].log_id # 0
    /\ validation_logs[run["api"].log_id].status = "completed"
    /\ \A j \in DOMAIN run["api"].channels :
          \E k \in DOMAIN validation_results :
             /\ validation_results[k].validation_log_id = run["api"].log_id
             /\ validation_results[k].channel_id = run["api"].channels[j]

\* C34: a probe that times out ends only that attempt.  After a timeout of
\* the k-th probe of a channel that has a k-th alternative, that alternative
\* is probed; and after any timeout the run goes on to probe every channel it
\* loaded (those of the batch and of the later batches) and ends completed.
C34_TimeoutEndsOnlyTheAttempt ==
    \A c \in Channels :
       /\ \A k \in 1..Len(AltUrls) :
             (/\ TimedOutAttempt(c)
              /\ Len(run["api"].task[c].probed) = k
              /\ Len(StoredAlternatives(c)) >= k)
                ~> (/\ Len(run["api"].task[c].probed) = k + 1
                    /\ run["api"].task[c].probed[k + 1][1] = StoredAlternatives(c)[k])
       /\ TimedOutAttempt(c) ~> CompletedWithAllRows

\* the run ended completed after the main address of a channel with two
\* alternatives timed out and both alternatives were probed without success:
\* its row carries the outcome of the main address
C34_Witness ==
    /\ CompletedWithAllRows
    /\ \E j \in DOMAIN run["api"].all_results :
          /\ StoredAlternatives(run["api"].all_results[j].channel_id) = AltUrls
          /\ run["api"].all_results[j].error_message = Some("Request timeout")
    /\ Len(run["api"].channels) > batch_size

\* the run of the api created its log under a concurrency limit of at least 1
StartedRun ==
    /\ run["api"].pc = "semaphore"
    /\ settings.validation_concurrent_limit >= 1

\* the log of the run is completed or failed
LeftRunning ==
    /\ validation_logs # <<>>
    /\ validation_logs[Len(validation_logs)].status \in {"completed", "failed"}

\* C38: with a concurrency limit of at least 1 and every probe returning,
\* every started run eventually leaves the status 'running': its log ends
\* completed or failed.
C38_RunLeavesRunning == StartedRun ~> LeftRunning

\* the part of C38 about the limiter and the batches: every task of the
\* batch in flight gets its slot and returns or raises, and every batch is
\* gathered, so the call itself always ends
C38_CallEnds ==
    /\ StartedRun ~> Ended("api")
    /\ \A c \in Channels :
          (run["api"].pc = "tasks" /\ run["api"].task[c].st = "waiting")
             ~> (run["api"].task[c].st \in {"done", "raised"})

(***************************************************************************)
(* Properties of the counters and of the status fields after a run         *)
(***************************************************************************)
\* the ValidationResult rows persisted for log l
RowsOfLog(l) == {k \in DOMAIN validation_results : validation_results[k].validation_log_id = l}

\* C36: for every run that ended completed, working_channels +
\* failed_channels equals the number of ValidationResult rows persisted for
\* the run and is at most its total_channels.  (It holds as long as no
\* channel of the run is deleted between its probe and the finalization.)
C36_CountersMatchRows ==
    \A l \in DOMAIN validation_logs :
       validation_logs[l].status = "completed" =>
          /\ validation_logs[l].working_channels + validation_logs[l].failed_channels
                = Cardinality(RowsOfLog(l))
          /\ Cardinality(RowsOfLog(l)) <= validation_logs[l].total_channels

\* the status fields of a Channel row
StatusFields(row) ==
    [ is_active     |-> row.is_active,
      is_working    |-> row.is_working,
      last_checked  |-> row.last_checked,
      check_count   |-> row.check_count,
      failure_count |-> row.failure_count,
      response_time |-> row.response_time ]

\* the run of the api ended completed, nothing else having run
CompletedAlone ==
    /\ run["api"].pc = "done"
    /\ run["api"].log_id # 0
    /\ validation_logs[run["api"].log_id].status = "completed"

\* C37: when a run completes with no other run and no edit overlapping it,
\* every channel with an outcome row of the run has is_working, last_checked
\* and response_time equal to the row's is_working, checked_at and
\* response_time, and every channel without a row of the run has its status
\* fields as they were: the finalization leaves them alone, and so does
\* every step of the run before it.
C37_ChannelsReflectRows ==
    [][\A c \in Channels :
          IF Finalizes("api")
          THEN IF \E k \in RowsOfLog(run["api"].log_id) : validation_results[k].channel_id = c
               THEN \A k \in RowsOfLog(run["api"].log_id) :
                       validation_results[k].channel_id = c =>
                          /\ channels'[c].is_working = validation_results[k].is_working
                          /\ channels'[c].last_checked = Some(validation_results[k].checked_at)
                          /\ channels'[c].response_time
                                = Some(validation_results[k].response_time)
               ELSE StatusFields(channels'[c]) = StatusFields(channels[c])
          ELSE run["api"].pc # "finalize"
                  => StatusFields(channels'[c]) = StatusFields(channels[c])]_vars

\* a completed run with a row of a failed probe for one channel and no row
\* for another channel of the playlist, whose task raised
C37_Witness ==
    /\ CompletedAlone
    /\ \E k \in RowsOfLog(run["api"].log_id) :
          /\ ~validation_results[k].is_working
          /\ validation_results[k].response_time = 3
          /\ channels[validation_results[k].channel_id].response_time = Some(3)
    /\ \E c \in SeqToSet(run["api"].channels) :
          \A k \in RowsOfLog(run["api"].log_id) : validation_results[k].channel_id # c

\* C39: an edit that sets is_active = true on a deactivated channel leaves
\* its failure_count (and its other status fields) unchanged; a run that
\* finalizes a failed outcome for a channel whose failure_count is already
\* at or above retry_attempts leaves it inactive; and failure_count goes
\* from a positive value to 0 only in the finalization of a run that has a
\* working outcome for the channel (a finalization that ends completed, or
\* one that raises after the channel's iteration).
C39_ReactivationKeepsFailures ==
    [][\A c \in Channels :
          /\ (~channels[c].is_active /\ channels'[c].is_active) =>
                /\ channels'[c].failure_count = channels[c].failure_count
                /\ channels' = [channels EXCEPT ![c].is_active = TRUE]
          /\ \A r \in Procs :
                (/\ Finalizes(r)
                 /\ channels[c].failure_count >= settings.validation_retry_attempts
                 /\ \E j \in DOMAIN run[r].all_results :
                       /\ run[r].all_results[j].channel_id = c
                       /\ ~run[r].all_results[j].is_working)
                   => /\ ~channels'[c].is_active
                      /\ channels'[c].failure_count = channels[c].failure_count + 1
          /\ (channels[c].failure_count > 0 /\ channels'[c].failure_count = 0) =>
                \E r \in Procs :
                   /\ run[r].pc = "finalize" /\ run'[r].pc \in {"done", "raised"}
                   /\ \E j \in DOMAIN run[r].all_results :
                         /\ run[r].all_results[j].channel_id = c
                         /\ run[r].all_results[j].is_working]_vars

\* the channel that had failed once was active with failure_count at or
\* above the threshold when the finalization of a run reloaded it (it was
\* reactivated, or the threshold was lowered to its failure_count) ...
C39_Reactivated ==
    /\ run["api"].pc = "done"
    /\ run["api"].log_id # 0
    /\ 2 \in SeqToSet(run["api"].channels)
    /\ run["api"].pending[2].set
    /\ run["api"].pending[2].old.is_active
    /\ run["api"].pending[2].old.failure_count >= settings.validation_retry_attempts

\* ... and the finalization has retired it again with one more failure
C39_Witness ==
    /\ C39_Reactivated
    /\ ~channels[2].is_active
    /\ channels[2].failure_count = run["api"].pending[2].old.failure_count + 1

(***************************************************************************)
(* Properties of two runs over the same playlist                           *)
(***************************************************************************)
\* the ValidationResult rows recorded for channel c, by either run
RowsOfChannel(c) == {k \in DOMAIN validation_results : validation_results[k].channel_id = c}

BothCompleted ==
    \A r \in Procs :
       /\ run[r].pc = "done"
       /\ run[r].log_id # 0
       /\ validation_logs[run[r].log_id].status = "completed"

\* C35: under every interleaving of two runs over the same playlist, the
\* check_count of a channel never decreases and, when both runs have
\* completed, is higher than before by the number of outcomes recorded for
\* the channel by the two runs; and a channel all of whose recorded outcomes
\* are failures has its failure_count higher by their number.
C35_NoLostUpdate ==
    /\ [][\A c \in Channels : channels'[c].check_count >= channels[c].check_count]_vars
    /\ [](BothCompleted =>
            \A c \in Channels :
               LET before == InitialChannel(c, settings.validation_retry_attempts)
               IN  /\ channels[c].check_count
                         = before.check_count + Cardinality(RowsOfChannel(c))
                   /\ (\A k \in RowsOfChannel(c) : ~validation_results[k].is_working)
                         => channels[c].failure_count
                               = before.failure_count + Cardinality(RowsOfChannel(c)))

(***************************************************************************)
(* Properties of the ValidationScheduler                                   *)
(***************************************************************************)
AliveLoops == {t \in Threads : is_alive(t)}

\* C40: over every sequence of start() and stop() calls, at most one loop
\* thread is alive and at most one daily job is registered at any time, and
\* start() while running changes nothing.
C40_OneLoopOneJob ==
    /\ [](Cardinality(AliveLoops) <= 1 /\ scheduler.jobs <= 1)
    /\ [][(scheduler.last # "start while running" /\ scheduler'.last = "start while running")
              => /\ scheduler._running
                 /\ scheduler' = [scheduler EXCEPT !.last = "start while running"]]_vars

\* the parts of C40 that hold: at most one job is registered, and start()
\* while running changes neither the job, nor the thread, nor the event
C40_OneJob ==
    /\ [](scheduler.jobs <= 1)
    /\ [][(scheduler.last # "start while running" /\ scheduler'.last = "start while running")
              => /\ scheduler._running
                 /\ scheduler' = [scheduler EXCEPT !.last = "start while running"]]_vars

\* start() was called while the scheduler was running, its loop thread
\* alive and its job registered
C40_StartedTwice ==
    /\ scheduler.last = "start while running"
    /\ scheduler._running
    /\ scheduler.jobs = 1
    /\ AliveLoops = {scheduler._thread}

\* stop() returned while the job was executing and start() was called: the
\* thread of the first start() is in its loop again beside the new one
C40_TwoLoops ==
    /\ scheduler._running
    /\ scheduler._thread = 2
    /\ scheduler.thread[1] = "check"
    /\ scheduler.thread[2] = "waiting"

====
